---- MODULE Spec2Model ----
(***************************************************************************)
(* A model of screenpack-updater.py: the single-pass line transducer       *)
(* process_ini with its rule engine handle_line, the aggregation           *)
(* registries (offsets, scales, velocities, facings), the anchor           *)
(* placeholders and the section finalizer.                                 *)
(*                                                                         *)
(* Text is modelled by its parsed shape.  A key is the sequence of its     *)
(* dot-separated segments.  A value is its comma (or '&') separated        *)
(* fields, each with the blank that precedes it, plus the wrapping quotes  *)
(* and the inline comment.  A line is a record of the shape the regular    *)
(* expressions of the program would find in it.  Numbers are integers of   *)
(* fewer than six digits, for which Python's float() and the "%g" format   *)
(* are exact.                                                              *)
(***************************************************************************)
EXTENDS Integers, Sequences, FiniteSets, TLC

VARIABLES
    alphabet,              \* the lines the input file may hold
    pc,                    \* "start" | "reading" | "done": position in process_ini
    has_info,              \* parameter of process_ini: "True" | "False" | "None"
    raw_version,           \* parameter of process_ini: "None" | a version text
    input,                 \* the lines read so far
    output,                \* the lines printed to output_stream
    current_section,
    info_section_seen,
    ikemenversion_written,
    seen_keys_by_section,
    section_buffer,
    member_offset_params,  \* _member_offset_params
    member_scale_params,   \* _member_scale_params
    facing_params,         \* _facing_params
    velocity_params,       \* _velocity_params
    anchor_counter,        \* _anchor_counter
    sec_start,             \* number of lines read when the current section began
    last,                  \* the last call of handle_line from the read loop
    lastFinal,             \* the last call of _finalize_section
    ini_file,              \* main: the lines of the file at ini_path, as found
    args_stdout,           \* main: args.stdout
    main_pc,               \* main: "none" when process_ini runs without main
    backup,                \* main: the copy made at ini_path + ".bak"
    written                \* main: what was written to ini_path

vars == <<alphabet, pc, has_info, raw_version, input, output, current_section,
          info_section_seen, ikemenversion_written, seen_keys_by_section,
          section_buffer, member_offset_params, member_scale_params,
          facing_params, velocity_params, anchor_counter, sec_start, last,
          lastFinal, ini_file, args_stdout, main_pc, backup, written>>

main_vars == <<ini_file, args_stdout, main_pc, backup, written>>

\* ------------------------------------------------------------------ bounds

\* The longest input file, in lines.
MaxLines == 4

\* The largest player number tried for the pattern p([0-9]+).
MaxPlayer == 9

\* Numerals are the integers of -NumRange..NumRange.
NumRange == 20

\* The longest file given to main, in lines.
MaxFile == 3

\* ------------------------------------------------------------ program data

TARGET_IKEMEN_VERSION_STR == "1.0"

None == "None"

SECTION_RENAMES(s) ==
    CASE s = "menu info" -> "pause menu"
      [] s = "menubgdef" -> "pausebgdef"
      [] s = "training info" -> "training pause menu"
      [] s = "trainingbgdef" -> "trainingpausebgdef"
      [] OTHER -> s

SECTION_CANONICAL_CASE(s, orig) ==
    CASE s = "pause menu" -> "Pause Menu"
      [] s = "pausebgdef" -> "PauseBGdef"
      [] s = "training pause menu" -> "Training Pause Menu"
      [] s = "trainingpausebgdef" -> "TrainingPauseBGdef"
      [] OTHER -> orig

\* a faulty variant of the table, with the two rows exchanged
member_map_exchanged(b, m) == IF b = 1 THEN 2 * m ELSE 2 * m - 1

PLAYER_MEMBER_MAP(b, m) == IF b = 1 THEN 2 * m - 1 ELSE 2 * m
\* a faulty variant of RosterSections, which takes title info for one
RosterSectionsAndTitle == {"select info", "vs screen", "victory screen", "title info"}

RosterSections == {"select info", "vs screen", "victory screen"}

\* str.lower() on the words of the model that hold capitals.
Lower(s) ==
    CASE s = "P1" -> "p1"
      [] s = "P2" -> "p2"
      [] s = "Offset" -> "offset"
      [] s = "Scale" -> "scale"
      [] s = "Member2" -> "member2"
      [] s = "Winquote" -> "winquote"
      [] s = "Spacing" -> "spacing"
      [] s = "Select Info" -> "select info"
      [] s = "VS Screen" -> "vs screen"
      [] s = "Victory Screen" -> "victory screen"
      [] s = "Option Info" -> "option info"
      [] s = "Menu Info" -> "menu info"
      [] s = "Hiscore Info" -> "hiscore info"
      [] s = "Dialogue Info" -> "dialogue info"
      [] s = "Title Info" -> "title info"
      [] s = "Info" -> "info"
      [] s = "Music" -> "music"
      [] OTHER -> s

LowerKey(key) == [i \in 1..Len(key) |-> Lower(key[i])]

\* ------------------------------------------------------------------ values

\* One field of a value: lead = a blank precedes it, s = its text.
Fld(lead, s) == [lead |-> lead, s |-> s]

\* A value: q = wrapped in one pair of quotes, sep = "," or "&", f = fields,
\* ic = the inline comment ("" when there is none).
Val(q, sep, f, ic) == [q |-> q, sep |-> sep, f |-> f, ic |-> ic]

\* The text "a" and the text "x, y" as unquoted values.
V1(a) == Val(FALSE, ",", <<Fld(FALSE, a)>>, "")
V2(x, y) == Val(FALSE, ",", <<Fld(FALSE, x), Fld(TRUE, y)>>, "")

\* ------------------------------------------------------------------- lines

\* src is not text: it is the position in the input of the line an item was
\* made from (0 for a synthesized line).  canon: the line is spelled
\* `key = value`, as the program writes a line it builds; a line of the input
\* spelled otherwise (blanks before the key, none around '=') has it FALSE.
KVLine(semi, key, val, canon) ==
    [shape |-> "kv", semi |-> semi, key |-> key, val |-> val,
     canon |-> canon, src |-> 0]

TextLine(shape, txt) == [shape |-> shape, txt |-> txt, src |-> 0]

SectionLine(name, pre, suf) ==
    [shape |-> "section", name |-> name, pre |-> pre, suf |-> suf, src |-> 0]

AnchorToken(id) == [shape |-> "anchor", id |-> id]

Strip(item) == IF item.shape = "anchor" THEN item ELSE [item EXCEPT !.src = 0]
StripAll(s) == [i \in 1..Len(s) |-> Strip(s[i])]
Stamp(item, n) == IF item.shape = "anchor" THEN item ELSE [item EXCEPT !.src = n]
StampAll(s, n) == [i \in 1..Len(s) |-> Stamp(s[i], n)]

\* a faulty variant of StartsWithSemicolon, which knows only plain comments
plain_comment_only(line) == line.shape = "comment"

\* raw_line.lstrip().startswith(";")
StartsWithSemicolon(line) ==
    \/ line.shape = "comment"
    \/ line.shape = "kv" /\ line.semi

\* _is_trailing_comment_or_blank_line, for an item of a section buffer
is_trailing_comment_or_blank_line(item) ==
    IF item.shape = "anchor" THEN FALSE
    ELSE item.shape = "blank" \/ StartsWithSemicolon(item)

\* ----------------------------------------------------------------- numbers

Numerals == (0 - NumRange)..NumRange

\* float(s): ok = s is a numeral, n = its value.  Beside the decimal
\* integers a few other spellings of a number are tried.
ParseFloat(s) ==
    CASE s = "2.0" -> [ok |-> TRUE, n |-> 2]
      [] s = "+1" -> [ok |-> TRUE, n |-> 1]
      [] s = "1.0" -> [ok |-> TRUE, n |-> 1]
      [] OTHER ->
           IF \E n \in Numerals : ToString(n) = s
           THEN [ok |-> TRUE, n |-> CHOOSE n \in Numerals : ToString(n) = s]
           ELSE [ok |-> FALSE, n |-> 0]

\* f"{x:g}" for an integer of fewer than six digits
FormatG(n) == ToString(n)

\* str(value).split(","), each part stripped: the parts of the unwrapped value
\* text.  A value written with '&' holds no comma and is one part.
SplitComma(v) ==
    IF v.sep = "," \/ Len(v.f) = 1
    THEN [i \in 1..Len(v.f) |-> v.f[i].s]
    ELSE <<"&">>

\* a faulty variant of ParsePair, which gives up the whole pair when one
\* component is missing or not a number
parse_pair_all_or_nothing(v, dflt) ==
    LET parts == SplitComma(v)
        good == /\ Len(parts) > 1
                /\ ParseFloat(parts[1]).ok
                /\ ParseFloat(parts[2]).ok
    IN  IF good THEN <<ParseFloat(parts[1]).n, ParseFloat(parts[2]).n>>
        ELSE <<dflt, dflt>>

ParsePair(v, dflt) ==
    LET parts == SplitComma(v)
        xs == IF Len(parts) > 0 /\ parts[1] # "" THEN parts[1] ELSE FormatG(dflt)
        ys == IF Len(parts) > 1 /\ parts[2] # "" THEN parts[2] ELSE FormatG(dflt)
        x == ParseFloat(xs)
        y == ParseFloat(ys)
    IN  << IF x.ok THEN x.n ELSE dflt, IF y.ok THEN y.n ELSE dflt >>

parse_xy_pair(v) == ParsePair(v, 0)

parse_scale_pair(v) == ParsePair(v, 1)

\* the text f"{x:g}, {y:g}" as the value of a synthesized line
PairText(x, y) == V2(FormatG(x), FormatG(y))

\* ------------------------------------------------------------- key shapes

Last(k) == k[Len(k)]
Tail2(k, n) == SubSeq(k, n, Len(k))
HasPrefix(k, p) == Len(k) >= Len(p) /\ SubSeq(k, 1, Len(p)) = p

\* the segment "p<n>" for n in the given set; 0 - 1 when it is none of them
PNumIn(s, S) ==
    IF \E n \in S : s = "p" \o ToString(n)
    THEN CHOOSE n \in S : s = "p" \o ToString(n)
    ELSE 0 - 1

PSeg(n) == "p" \o ToString(n)

\* the segment "member<m>", m in 1..4; 0 when it is not one
MemberIdx(s) ==
    IF \E m \in 1..4 : s = "member" \o ToString(m)
    THEN CHOOSE m \in 1..4 : s = "member" \o ToString(m)
    ELSE 0

\* the segment is a decimal number: [0-9]+ read by int(), which takes a
\* leading zero
NatOf(s) ==
    IF \E n \in 0..NumRange : s = ToString(n)
    THEN CHOOSE n \in 0..NumRange : s = ToString(n)
    ELSE IF s = "01" THEN 1
    ELSE 0 - 1

BgAttrs == {"anim", "spr", "offset", "facing", "scale", "xshear", "angle",
            "layerno", "window", "localcoord"}

TextAttrs == {"font", "offset", "scale", "xshear", "angle", "text", "layerno",
              "window", "localcoord"}

IconAttrs == {"offset", "facing", "scale", "xshear", "angle", "layerno",
              "window", "localcoord"}

\* ------------------------------------------------------------ rule tables

append_if_missing(section) ==
    IF section = "option info"
    THEN << <<<<"keymenu", "pos">>, V2("0", "0")>>,
            <<<<"keymenu", "window", "margins", "y">>, V2("0", "0")>>,
            <<<<"keymenu", "window", "visibleitems">>, V1("0")>> >>
    ELSE << >>

\* every pattern of keys_to_delete is one literal key, matched ignoring case
keys_to_delete(section) ==
    CASE section = "languages" -> {<<"languages">>}
      [] section = "vs screen" ->
           {<<"p2", "accept", "key">>, <<"p2", "skip", "key">>}
      [] section = "victory screen" -> {<<"winquote", "time">>}
      [] section = "attract mode" ->
           {<<"credits", "key">>, <<"options", "key">>}
      [] section = "option info" ->
           {<<"menu", "uselocalcoord">>, <<"keymenu", "itemname", "playerno">>}
      [] section \in {"replay info", "pause menu", "training pause menu"} ->
           {<<"menu", "uselocalcoord">>}
      [] OTHER -> {}

\* val_rx ^([^,]*),([^,]*)$ with replacement \2: a text with exactly one comma
\* becomes what follows the comma
SecondOfPair(v) ==
    IF v.sep = "," /\ Len(v.f) = 2
    THEN [v EXCEPT !.f = <<v.f[2]>>]
    ELSE v

\* val_rx ^.*$ with replacement %s
WholeToPercentS(v) == [v EXCEPT !.sep = ",", !.f = <<Fld(FALSE, "%s")>>]

\* %0?([0-9]+)[si] -> %0\1d, then %[si] -> %d, on one field's text
FormatSub(s) ==
    CASE s = "%s" -> "%d"
      [] s = "%i" -> "%d"
      [] s = "%2s" -> "%02d"
      [] s = "%02i" -> "%02d"
      [] OTHER -> s

FormatSubAll(v) ==
    [v EXCEPT !.f = [i \in 1..Len(v.f) |-> [v.f[i] EXCEPT !.s = FormatSub(v.f[i].s)]]]

\* %s -> %d alone
PercentSToD(v) ==
    [v EXCEPT !.f = [i \in 1..Len(v.f) |->
        [v.f[i] EXCEPT !.s = IF v.f[i].s = "%s" THEN "%d" ELSE v.f[i].s]]]

\* ^item\.rank\.?[0-9]*\.text$
IsItemRankText(k) ==
    \/ k = <<"item", "rank", "text">>
    \/ Len(k) = 4 /\ k[1] = "item" /\ k[2] = "rank" /\ NatOf(k[3]) >= 0
         /\ k[4] = "text"

\* ^item\.data\.(?!time\.).*text$ on whole segments
IsItemDataText(k) ==
    /\ Len(k) >= 3 /\ k[1] = "item" /\ k[2] = "data" /\ Last(k) = "text"
    /\ k[3] # "time"

\* a faulty variant of value_modifications, which rewrites nothing
value_unmodified(section, key, v) == v

\* value_modifications: every rule of the section whose key pattern matches,
\* in the order of the table, applied to the unwrapped value
value_modifications(section, key, v) ==
    LET k == LowerKey(key) IN
    CASE section = "victory screen" ->
           IF k = <<"winquote", "spacing">> THEN SecondOfPair(v) ELSE v
      [] section = "dialogue info" ->
           IF Len(k) = 3 /\ k[1] \in {"p1", "p2"} /\ k[2] = "text"
              /\ k[3] = "spacing"
           THEN SecondOfPair(v) ELSE v
      [] section = "hiscore info" ->
           LET v1 == IF k = <<"item", "name", "text">>
                     THEN WholeToPercentS(v) ELSE v
               v2 == IF IsItemRankText(k) THEN FormatSubAll(v1) ELSE v1
               v3 == IF IsItemDataText(k) THEN FormatSubAll(v2) ELSE v2
               v4 == IF k = <<"item", "data", "text", "win">>
                     THEN PercentSToD(v3) ELSE v3
               v5 == IF k = <<"item", "rank", "text", "default">>
                     THEN PercentSToD(v4) ELSE v4
               v6 == IF Len(k) = 4 /\ SubSeq(k, 1, 3) = <<"item", "rank", "text">>
                        /\ NatOf(k[4]) >= 0
                     THEN PercentSToD(v5) ELSE v5
           IN  v6
      [] section \in {"continue screen", "attract mode"} ->
           IF k = <<"credits", "text">> THEN FormatSubAll(v) ELSE v
      [] OTHER -> v

\* ------------------------------------------------- key transformation rules
\* Each rule takes the key as written (its groups keep their case) and the
\* lower-cased key k (the patterns ignore case); << >> means "no match".

\* ^<m>\.bg\.active\.(.+)\.(anim|...)$ -> <m>.item.active.bg.\1.\2
RuleBgActive(key, k, m) ==
    IF Len(k) >= 5 /\ SubSeq(k, 1, 3) = <<m, "bg", "active">> /\ Last(k) \in BgAttrs
    THEN << <<m, "item", "active", "bg">> \o Tail2(key, 4) >>
    ELSE << >>

\* ^<m>\.bg\.(.+)\.(anim|...)$ -> <m>.item.bg.\1.\2
RuleBg(key, k, m) ==
    IF Len(k) >= 4 /\ SubSeq(k, 1, 2) = <<m, "bg">> /\ Last(k) \in BgAttrs
    THEN << <<m, "item", "bg">> \o Tail2(key, 3) >>
    ELSE << >>

\* the first rule of the two that matches
RulesMenuBg(key, k, m) ==
    IF RuleBgActive(key, k, m) # << >> THEN RuleBgActive(key, k, m)
    ELSE RuleBg(key, k, m)

\* ^p([12])\.<a>\.<b>$ and its like -> p\1.<new...>
RuleP12(k, mid, new) ==
    IF Len(k) = 1 + Len(mid) /\ k[1] \in {"p1", "p2"} /\ Tail2(k, 2) = mid
    THEN << <<k[1]>> \o new >>
    ELSE << >>

\* ^<a>\.<b>$ -> <new>
RuleExact(k, old, new) == IF k = old THEN << new >> ELSE << >>

\* a faulty variant of FirstMatch, which applies every rule that matches
every_match(results) ==
    LET all[i \in 0..Len(results)] ==
            IF i = 0 THEN << >> ELSE all[i - 1] \o results[i]
    IN  all[Len(results)]

\* the first non-empty result of a list of rule results
FirstMatch(results) ==
    IF \E i \in 1..Len(results) : results[i] # << >>
    THEN results[CHOOSE i \in 1..Len(results) :
                    /\ results[i] # << >>
                    /\ \A j \in 1..(i - 1) : results[j] = << >>]
    ELSE << >>

\* ^menu\.valuename\.<name>\.(a|b|c)$ -> menu.valuename.<name>_\1
RuleValuename(key, k, name, alts) ==
    IF Len(k) = 4 /\ SubSeq(k, 1, 3) = <<"menu", "valuename", name>> /\ k[4] \in alts
    THEN << <<"menu", "valuename", name \o "_" \o key[4]>> >>
    ELSE << >>

slide_rules(k, plain) ==
    << RuleP12(k, <<plain, "slide", "speed">>, <<plain, "velocity">>),
       RuleP12(k, <<"face2", "slide", "speed">>, <<"face2", "velocity">>),
       RuleP12(k, <<plain, "slide", "dist">>, <<plain, "maxdist">>),
       RuleP12(k, <<"face2", "slide", "dist">>, <<"face2", "maxdist">>) >>

\* vs screen and victory screen write the plain kind without a segment
slide_rules_plain(k) ==
    << RuleP12(k, <<"slide", "speed">>, <<"velocity">>),
       RuleP12(k, <<"face2", "slide", "speed">>, <<"face2", "velocity">>),
       RuleP12(k, <<"slide", "dist">>, <<"maxdist">>),
       RuleP12(k, <<"face2", "slide", "dist">>, <<"face2", "maxdist">>) >>

\* transformations[section], tried in the order of the table
transformations(section, key) ==
    LET k == LowerKey(key)
        n == Len(k)
    IN
    CASE section = "music" ->
           FirstMatch(<<
             IF n >= 3 /\ SubSeq(k, 1, 2) = <<"continue", "end">>
             THEN << <<"continueend">> \o Tail2(key, 3) >> ELSE << >>,
             IF n >= 3 /\ SubSeq(k, 1, 2) = <<"results", "lose">>
             THEN << <<"resultslose">> \o Tail2(key, 3) >> ELSE << >> >>)
      [] section = "title info" ->
           FirstMatch(<<
             RuleBgActive(key, k, "menu"),
             RuleBg(key, k, "menu"),
             IF n >= 3 /\ k[1] = "cursor" /\ k[2] # "done" /\ Last(k) = "snd"
             THEN << <<"cursor", "done">> \o SubSeq(key, 2, n - 1) \o <<"snd">> >>
             ELSE << >>,
             RuleExact(k, <<"menu", "accept", "key">>, <<"menu", "done", "key">>),
             IF n = 2 /\ k[1] = "footer1" /\ k[2] \in TextAttrs
             THEN << <<"footer", "title", key[2]>> >> ELSE << >>,
             IF n = 2 /\ k[1] = "footer2" /\ k[2] \in TextAttrs
             THEN << <<"footer", "info", key[2]>> >> ELSE << >>,
             IF n = 2 /\ k[1] = "footer3" /\ k[2] \in TextAttrs
             THEN << <<"footer", "version", key[2]>> >> ELSE << >> >>)
      [] section = "select info" ->
           FirstMatch(<<
             RuleP12(k, <<"teammenu", "accept", "key">>, <<"teammenu", "done", "key">>),
             RuleP12(k, <<"palmenu", "accept", "key">>, <<"palmenu", "done", "key">>),
             IF RuleP12(k, <<"palmenu", "random", "applypal">>, << >>) # << >>
             THEN << <<"palmenu", "random", "applypal">> >> ELSE << >>,
             IF k = <<"stage", "active", "font">>
             THEN << <<"stage", "font">>, <<"stage", "active", "font">> >>
             ELSE << >>,
             IF n = 3 /\ SubSeq(k, 1, 2) = <<"stage", "active">>
                /\ k[3] \in (TextAttrs \ {"font"})
             THEN << <<"stage", key[3]>> >> ELSE << >> >>
             \o slide_rules(k, "face"))
      [] section = "vs screen" ->
           FirstMatch(<<
             RuleExact(k, <<"p1", "accept", "key">>, <<"done", "key">>),
             RuleExact(k, <<"p1", "skip", "key">>, <<"skip", "key">>),
             IF n = 3 /\ PNumIn(k[1], 1..8) >= 1 /\ k[2] = "icon" /\ k[3] \in IconAttrs
             THEN << <<k[1], "icon", key[3]>>, <<k[1], "icon", "done", key[3]>> >>
             ELSE << >> >>
             \o slide_rules_plain(k))
      [] section = "victory screen" ->
           FirstMatch(<<
             RuleExact(k, <<"winquote", "spacing">>, <<"winquote", "textspacing">>),
             RuleExact(k, <<"winquote", "delay">>, <<"winquote", "textdelay">>) >>
             \o slide_rules_plain(k))
      [] section = "option info" ->
           FirstMatch(<<
             RuleExact(k, <<"menu", "itemname", "menugame", "stunbar">>,
                          <<"menu", "itemname", "menugame", "dizzy">>),
             RuleExact(k, <<"menu", "itemname", "menugame", "guardbar">>,
                          <<"menu", "itemname", "menugame", "guardbreak">>),
             RuleExact(k, <<"menu", "itemname", "menugame", "redlifebar">>,
                          <<"menu", "itemname", "menugame", "redlife">>),
             RuleExact(k, <<"menu", "itemname", "menuvideo", "vretrace">>,
                          <<"menu", "itemname", "menuvideo", "vsync">>),
             RuleBgActive(key, k, "menu"),
             RuleBg(key, k, "menu"),
             RuleBgActive(key, k, "keymenu"),
             RuleBg(key, k, "keymenu"),
             IF n = 3 /\ k[1] = "keymenu" /\ k[2] \in {"p1", "p2"} /\ k[3] = "pos"
             THEN << <<"keymenu", k[2], "menuoffset">> >> ELSE << >>,
             IF n = 4 /\ SubSeq(k, 1, 2) = <<"keymenu", "item">>
                /\ k[3] \in {"p1", "p2"} /\ k[4] \in TextAttrs
             THEN << <<"keymenu", k[3], "playerno", key[4]>> >> ELSE << >> >>)
      [] section \in {"replay info", "pause menu"} ->
           RulesMenuBg(key, k, "menu")
      [] section = "training pause menu" ->
           FirstMatch(<<
             RuleBgActive(key, k, "menu"),
             RuleBg(key, k, "menu"),
             RuleValuename(key, k, "dummycontrol", {"cooperative", "ai", "manual"}),
             RuleValuename(key, k, "ailevel",
                           {"1", "2", "3", "4", "5", "6", "7", "8"}),
             RuleValuename(key, k, "guardmode", {"none", "auto"}),
             RuleValuename(key, k, "dummymode", {"stand", "crouch", "jump", "wjump"}),
             RuleValuename(key, k, "distance", {"any", "close", "medium", "far"}),
             RuleValuename(key, k, "buttonjam",
                           {"none", "a", "b", "c", "x", "y", "z", "s", "d", "w"}) >>)
      [] section = "attract mode" ->
           FirstMatch(<<
             RuleBgActive(key, k, "menu"),
             RuleBg(key, k, "menu"),
             RuleExact(k, <<"menu", "accept", "key">>, <<"menu", "done", "key">>),
             RuleExact(k, <<"options", "key">>, <<"options", "keycode">>) >>)
      [] section = "challenger info" ->
           RuleExact(k, <<"text">>, <<"text", "text">>)
      [] section = "continue screen" ->
           RuleExact(k, <<"accept", "key">>, <<"done", "key">>)
      [] section = "dialogue info" ->
           FirstMatch(<<
             RuleP12(k, <<"text", "spacing">>, <<"text", "textspacing">>),
             RuleP12(k, <<"text", "delay">>, <<"text", "textdelay">>) >>)
      [] section = "hiscore info" ->
           FirstMatch(<<
             IF n >= 3 /\ SubSeq(k, 1, 2) = <<"item", "data">>
             THEN << <<"item", "result">> \o Tail2(key, 3) >> ELSE << >>,
             IF n >= 3 /\ SubSeq(k, 1, 2) = <<"title", "data">>
             THEN << <<"title", "result">> \o Tail2(key, 3) >> ELSE << >>,
             RuleExact(k, <<"accept", "key">>, <<"done", "key">>) >>)
      [] OTHER -> << >>

\* a faulty variant of index_shift, which joins the indices as they are
index_joined(key) ==
    LET k == LowerKey(key)
        n == Len(k)
    IN
    IF n = 4 /\ k[1] = "cell" /\ NatOf(k[2]) >= 0 /\ NatOf(k[3]) >= 0
       /\ k[4] \in {"offset", "facing", "skip"}
    THEN << <<"cell", k[2] \o "-" \o k[3], k[4]>> >>
    ELSE IF n = 6 /\ k[1] \in {"p1", "p2"} /\ k[2] = "cursor"
            /\ k[3] \in {"active", "done"} /\ NatOf(k[4]) >= 0 /\ NatOf(k[5]) >= 0
            /\ k[6] \in {"anim", "spr", "offset", "facing", "scale"}
    THEN << <<k[1], "cursor", k[3], k[4] \o "-" \o k[5], k[6]>> >>
    ELSE << >>

\* the two index-shift rules of [Select Info], tried before the table
index_shift(key) ==
    LET k == LowerKey(key)
        n == Len(k)
        Shift(a, b) == ToString(NatOf(a) - 1) \o "-" \o ToString(NatOf(b) - 1)
    IN
    IF n = 4 /\ k[1] = "cell" /\ NatOf(k[2]) >= 0 /\ NatOf(k[3]) >= 0
       /\ k[4] \in {"offset", "facing", "skip"}
    THEN << <<"cell", Shift(k[2], k[3]), k[4]>> >>
    ELSE IF n = 6 /\ k[1] \in {"p1", "p2"} /\ k[2] = "cursor"
            /\ k[3] \in {"active", "done"} /\ NatOf(k[4]) >= 0 /\ NatOf(k[5]) >= 0
            /\ k[6] \in {"anim", "spr", "offset", "facing", "scale"}
    THEN << <<k[1], "cursor", k[3], Shift(k[4], k[5]), k[6]>> >>
    ELSE << >>

\* apply_key_transformations: the lines f"{comment}{new_key} = {value}", or
\* << >> for None.  val holds the output value with its inline comment.
KeyLines(keys, val, comment) ==
    [i \in 1..Len(keys) |-> KVLine(comment = ";", keys[i], val, TRUE)]

apply_key_transformations(section, key, val, comment) ==
    IF section = "select info" /\ index_shift(key) # << >>
    THEN KeyLines(index_shift(key), val, comment)
    ELSE KeyLines(transformations(section, key), val, comment)

\* ------------------------------------------------------ aggregation registry
\* A registry is a function from slot keys <<section, base player, kind>> to
\* slots.  NoPair stands for Python's None in a slot's "base" and "v".

NoPair == << >>

NoAnchor == 0

EmptyRegistry == [x \in {} |-> 0]

Put(reg, key, slot) == (key :> slot) @@ reg

\* a faulty variant of Remove, which deletes nothing
remove_nothing(reg, keys) == reg

Remove(reg, keys) == [x \in (DOMAIN reg) \ keys |-> reg[x]]

\* The engine state handle_line reads and writes.
EngineState(off, scl, fac, vel, ctr) ==
    [off |-> off, scl |-> scl, fac |-> fac, vel |-> vel, ctr |-> ctr]

\* The patterns of _record_member_offset_param / _record_member_scale_param for
\* attr = "offset" / "scale": base keys first, then member keys.  m = 0 is
\* member_index None.
agg_shape(key, attr) ==
    LET k == LowerKey(key)
        n == Len(k)
        p12 == n >= 2 /\ k[1] \in {"p1", "p2"}
        bp == IF k[1] = "p1" THEN 1 ELSE 2
        No == [ok |-> FALSE, bp |-> 0, m |-> 0, kind |-> "plain"]
        Yes(m, kind) == [ok |-> TRUE, bp |-> bp, m |-> m, kind |-> kind]
    IN
    IF ~p12 \/ Last(k) # attr THEN No
    ELSE IF n = 3 /\ k[2] = "face" THEN Yes(0, "face")
    ELSE IF n = 3 /\ k[2] = "face2" THEN Yes(0, "face2")
    ELSE IF n = 2 THEN Yes(0, "plain")
    ELSE IF n = 4 /\ MemberIdx(k[2]) >= 1 /\ k[3] = "face"
    THEN Yes(MemberIdx(k[2]), "face")
    ELSE IF n = 4 /\ MemberIdx(k[2]) >= 1 /\ k[3] = "face2"
    THEN Yes(MemberIdx(k[2]), "face2")
    ELSE IF n = 3 /\ MemberIdx(k[2]) >= 1 THEN Yes(MemberIdx(k[2]), "plain")
    ELSE No

\* a faulty variant of record_slot, which makes an anchor at every contribution
record_slot_always_anchors(reg, ctr, slotkey, m, xy) ==
    LET old == IF slotkey \in DOMAIN reg THEN reg[slotkey]
               ELSE [base |-> NoPair, members |-> EmptyRegistry, anchor |-> NoAnchor]
        set == IF m = 0 THEN [old EXCEPT !.base = xy]
               ELSE [old EXCEPT !.members = (m :> xy) @@ old.members]
    IN  [reg |-> Put(reg, slotkey, [set EXCEPT !.anchor = ctr + 1]),
         ctr |-> ctr + 1,
         anchor |-> ctr + 1]

\* a faulty variant of record_slot, which keeps the first value stored for a
\* base or a member
record_slot_first_wins(reg, ctr, slotkey, m, xy) ==
    LET old == IF slotkey \in DOMAIN reg THEN reg[slotkey]
               ELSE [base |-> NoPair, members |-> EmptyRegistry, anchor |-> NoAnchor]
        set == IF m = 0 THEN (IF old.base = NoPair THEN [old EXCEPT !.base = xy] ELSE old)
               ELSE [old EXCEPT !.members = old.members @@ (m :> xy)]
        fresh == set.anchor = NoAnchor
        new == IF fresh THEN [set EXCEPT !.anchor = ctr + 1] ELSE set
    IN  [reg |-> Put(reg, slotkey, new),
         ctr |-> IF fresh THEN ctr + 1 ELSE ctr,
         anchor |-> IF fresh THEN ctr + 1 ELSE NoAnchor]

\* the body shared by the two _record_member_*_param functions, from the
\* parsed pair on: setdefault, store, allocate the anchor on first use
record_slot(reg, ctr, slotkey, m, xy) ==
    LET old == IF slotkey \in DOMAIN reg THEN reg[slotkey]
               ELSE [base |-> NoPair, members |-> EmptyRegistry, anchor |-> NoAnchor]
        set == IF m = 0 THEN [old EXCEPT !.base = xy]
               ELSE [old EXCEPT !.members = (m :> xy) @@ old.members]
        fresh == set.anchor = NoAnchor
        new == IF fresh THEN [set EXCEPT !.anchor = ctr + 1] ELSE set
    IN  [reg |-> Put(reg, slotkey, new),
         ctr |-> IF fresh THEN ctr + 1 ELSE ctr,
         anchor |-> IF fresh THEN ctr + 1 ELSE NoAnchor]

NotHandled(st) == [handled |-> FALSE, anchor |-> NoAnchor, st |-> st]

\* what a _record_*_param function returns once the slot is stored: handled,
\* the anchor when it is new, and the registry named by field
Recorded(st, field, r) ==
    [handled |-> TRUE, anchor |-> r.anchor,
     st |-> [st EXCEPT ![field] = r.reg, !.ctr = r.ctr]]

RecordShape(st, field, section, sh, xy) ==
    IF section \notin RosterSections \/ ~sh.ok THEN NotHandled(st)
    ELSE Recorded(st, field,
                  record_slot(st[field], st.ctr, <<section, sh.bp, sh.kind>>, sh.m, xy))

record_member_offset_param(st, section, key, v) ==
    RecordShape(st, "off", section, agg_shape(key, "offset"), parse_xy_pair(v))

record_member_scale_param(st, section, key, v) ==
    RecordShape(st, "scl", section, agg_shape(key, "scale"), parse_scale_pair(v))

\* p([0-9]+) followed by the given segments
PlayerThen(k, rest) ==
    IF Len(k) = 1 + Len(rest) /\ Tail2(k, 2) = rest
    THEN PNumIn(k[1], 0..MaxPlayer)
    ELSE 0 - 1

\* the kind of a facing key, None when the key is not one
facing_kind(k) ==
    CASE PlayerThen(k, <<"face", "facing">>) >= 0 -> "face"
      [] PlayerThen(k, <<"face2", "facing">>) >= 0 -> "face2"
      [] PlayerThen(k, <<"facing">>) >= 0 -> "plain"
      [] OTHER -> None

\* float(first) if first != "" else 1.0, and 1.0 on ValueError
facing_value(first) ==
    IF first # "" /\ ParseFloat(first).ok THEN ParseFloat(first).n ELSE 1

\* _record_facing_param: returns the facing records
record_facing_param(fac, section, key, v) ==
    IF section \notin RosterSections \/ Len(key) < 2
       \/ facing_kind(LowerKey(key)) = None
    THEN fac
    ELSE Put(fac, <<section, PNumIn(Lower(key[1]), 0..MaxPlayer),
                    facing_kind(LowerKey(key))>>,
             facing_value(SplitComma(v)[1]))

\* the kind of a slide.speed key in the section, None when the key is not one
velocity_kind(section, k) ==
    IF section = "select info"
    THEN CASE PlayerThen(k, <<"face", "slide", "speed">>) >= 0 -> "face"
           [] PlayerThen(k, <<"face2", "slide", "speed">>) >= 0 -> "face2"
           [] OTHER -> None
    ELSE CASE PlayerThen(k, <<"slide", "speed">>) >= 0 -> "plain"
           [] PlayerThen(k, <<"face2", "slide", "speed">>) >= 0 -> "face2"
           [] OTHER -> None

\* setdefault, store v, allocate the anchor on first use
record_velocity_slot(st, slotkey, xy) ==
    LET fresh == slotkey \notin DOMAIN st.vel
        anchor == IF fresh THEN st.ctr + 1 ELSE st.vel[slotkey].anchor
    IN  [handled |-> TRUE,
         anchor |-> IF fresh THEN anchor ELSE NoAnchor,
         st |-> [st EXCEPT !.vel = Put(st.vel, slotkey, [v |-> xy, anchor |-> anchor]),
                           !.ctr = IF fresh THEN st.ctr + 1 ELSE st.ctr]]

record_velocity_param(st, section, key, v) ==
    IF section \notin RosterSections \/ Len(key) < 3
       \/ velocity_kind(section, LowerKey(key)) = None
    THEN NotHandled(st)
    ELSE record_velocity_slot(st,
             <<section, PNumIn(Lower(key[1]), 0..MaxPlayer),
               velocity_kind(section, LowerKey(key))>>,
             parse_xy_pair(v))

\* the slot keys of a section in the order the dict holds them: the order of
\* insertion, which is the order of the anchors
RECURSIVE SlotOrder(_, _)
SlotOrder(reg, keys) ==
    IF keys = {} THEN << >>
    ELSE LET k == CHOOSE x \in keys :
                    \A y \in keys : reg[x].anchor <= reg[y].anchor
         IN  <<k>> \o SlotOrder(reg, keys \ {k})

SlotsOf(reg, sec) == {key \in DOMAIN reg : key[1] = sec}

\* a faulty variant of DoneSections: every roster section
EveryRosterSection == {"select info", "vs screen", "victory screen"}

\* the sections whose aggregated offsets and scales get a .done. twin
DoneSections == {"select info", "vs screen"}

\* faulty variants of the combinators: the override is left out, the base is
\* left out
combine_base_only(b, m) == b

combine_override_only(b, m) == m

\* fx = bx + mx, fy = by + my
offset_combine(b, m) == <<b[1] + m[1], b[2] + m[2]>>

\* fx = bx * mx, fy = by * my
scale_combine(b, m) == <<b[1] * m[1], b[2] * m[2]>>

\* the key of the target player's line: base_key + "." + attr
target_key(np, kind, mid, attr) ==
    (IF kind = "plain" THEN <<PSeg(np)>> ELSE <<PSeg(np), kind>>) \o mid \o <<attr>>

\* a faulty variant of member_indices, which always keeps member 1
member_indices_with_first(slot) == (DOMAIN slot.members) \cup {1}

\* a faulty variant of member_indices, which gives a line to the members with
\* an override only
member_indices_overrides_only(slot) == DOMAIN slot.members

\* which members get a final line
member_indices(slot) ==
    (DOMAIN slot.members)
      \cup (IF slot.base # NoPair \/ 1 \in DOMAIN slot.members THEN {1} ELSE {})

\* the lines of one member of one offset slot
offset_lines(sec, bp, kind, slot, m) ==
    LET np == PLAYER_MEMBER_MAP(bp, m)
        b == IF slot.base # NoPair THEN slot.base ELSE <<0, 0>>
        mv == IF m \in DOMAIN slot.members THEN slot.members[m] ELSE <<0, 0>>
        f == offset_combine(b, mv)
        line(mid) == KVLine(FALSE, target_key(np, kind, mid, "offset"),
                            PairText(f[1], f[2]), TRUE)
    IN  IF sec \in DoneSections THEN <<line(<< >>), line(<<"done">>)>>
        ELSE <<line(<< >>)>>

\* the lines of one member of one scale slot
scale_lines(sec, bp, kind, slot, m) ==
    LET np == PLAYER_MEMBER_MAP(bp, m)
        b == IF slot.base # NoPair THEN slot.base ELSE <<1, 1>>
        mv == IF m \in DOMAIN slot.members THEN slot.members[m] ELSE <<1, 1>>
        f == scale_combine(b, mv)
        line(mid) == KVLine(FALSE, target_key(np, kind, mid, "scale"),
                            PairText(f[1], f[2]), TRUE)
    IN  IF sec \in DoneSections THEN <<line(<< >>), line(<<"done">>)>>
        ELSE <<line(<< >>)>>

\* for member_idx in sorted(member_indices): the lines of a slot
slot_lines(attr, sec, bp, kind, slot) ==
    LET L(m) == IF m \notin member_indices(slot) THEN << >>
                ELSE IF attr = "offset" THEN offset_lines(sec, bp, kind, slot, m)
                ELSE scale_lines(sec, bp, kind, slot, m)
    IN  L(1) \o L(2) \o L(3) \o L(4)

\* The result of a flush: amap = the pairs (anchor, lines) in the order the
\* anchor_map dict holds them, tail = append_lines, reg = the registry left.
FlushResult(reg, amap, tail) == [reg |-> reg, amap |-> amap, tail |-> tail]

\* entries = one pair (anchor, lines) per slot, in the order of the slots; a
\* slot with no line to emit adds nothing
AnchoredPairs(entries) ==
    SelectSeq(entries, LAMBDA e : e.lines # << >> /\ e.a # NoAnchor)

RECURSIVE ConcatAll(_)
ConcatAll(ss) == IF ss = << >> THEN << >> ELSE Head(ss) \o ConcatAll(Tail(ss))

\* the lines of the slots without an anchor go after the buffer
TailLines(entries) ==
    ConcatAll([i \in 1..Len(entries) |->
                 IF entries[i].a = NoAnchor THEN entries[i].lines ELSE << >>])

\* the pairs (anchor, lines) of the section's slots of one registry
slot_entries(attr, reg, section, order) ==
    [i \in 1..Len(order) |->
        [a |-> reg[order[i]].anchor,
         lines |-> slot_lines(attr, section, order[i][2], order[i][3],
                              reg[order[i]])]]

flush_entries(reg, section, entries) ==
    FlushResult(Remove(reg, SlotsOf(reg, section)), AnchoredPairs(entries),
                TailLines(entries))

flush_member_offsets_for_section(reg, section) ==
    IF section = "" \/ section \notin RosterSections
    THEN FlushResult(reg, << >>, << >>)
    ELSE flush_entries(reg, section,
             slot_entries("offset", reg, section,
                          SlotOrder(reg, SlotsOf(reg, section))))

flush_member_scales_for_section(reg, section) ==
    IF section = "" \/ section \notin RosterSections
    THEN FlushResult(reg, << >>, << >>)
    ELSE flush_entries(reg, section,
             slot_entries("scale", reg, section,
                          SlotOrder(reg, SlotsOf(reg, section))))

\* a faulty variant of facing_for, which falls back to the plain kind only
facing_for_plain_fallback(fac, sec, bp, kind) ==
    IF <<sec, bp, kind>> \in DOMAIN fac THEN fac[<<sec, bp, kind>>]
    ELSE IF <<sec, bp, "plain">> \in DOMAIN fac THEN fac[<<sec, bp, "plain">>]
    ELSE 1

\* the facing of a velocity slot: its own kind's, else the fallback kind's,
\* else 1.0
facing_for(fac, sec, bp, kind) ==
    LET other == IF kind = "plain" THEN "face" ELSE "plain" IN
    IF <<sec, bp, kind>> \in DOMAIN fac THEN fac[<<sec, bp, kind>>]
    ELSE IF <<sec, bp, other>> \in DOMAIN fac THEN fac[<<sec, bp, other>>]
    ELSE 1

\* a faulty variant of velocity_x, which forgets the facing
velocity_x_unfaced(vx, facing) == vx

\* fx = vx * facing
velocity_x(vx, facing) == vx * facing

\* new_key of a velocity slot
velocity_key(sec, bp, kind) ==
    IF kind = "plain" THEN <<PSeg(bp), "velocity">>
    ELSE <<PSeg(bp), kind, "velocity">>

velocity_line(fac, sec, bp, kind, slot) ==
    LET v == IF slot.v # NoPair THEN slot.v ELSE <<0, 0>>
        fx == velocity_x(v[1], facing_for(fac, sec, bp, kind))
    IN  KVLine(FALSE, velocity_key(sec, bp, kind), PairText(fx, v[2]), TRUE)

velocity_entries(vel, fac, section, order) ==
    [i \in 1..Len(order) |->
        [a |-> vel[order[i]].anchor,
         lines |-> <<velocity_line(fac, section, order[i][2], order[i][3],
                                   vel[order[i]])>>]]

velocity_flushed(vel, fac, section, entries) ==
    [reg |-> Remove(vel, SlotsOf(vel, section)),
     fac |-> Remove(fac, SlotsOf(fac, section)),
     amap |-> AnchoredPairs(entries),
     tail |-> TailLines(entries)]

\* _flush_velocity_for_section: also clears the section's facing records
flush_velocity_for_section(vel, fac, section) ==
    IF section = "" \/ section \notin RosterSections
    THEN [reg |-> vel, fac |-> fac, amap |-> << >>, tail |-> << >>]
    ELSE velocity_flushed(vel, fac, section,
             velocity_entries(vel, fac, section,
                              SlotOrder(vel, SlotsOf(vel, section))))

\* ---------------------------------------------------------- anchor resolution

\* the lines mapped to an anchor that is still in the map, [] otherwise
RECURSIVE resolve_walk(_, _)
resolve_walk(buf, amap) ==
    IF buf = << >> THEN [out |-> << >>, left |-> amap]
    ELSE LET item == Head(buf) IN
         IF item.shape = "anchor"
         THEN LET hit == SelectSeq(amap, LAMBDA p : p.a = item.id)
                  rest == resolve_walk(Tail(buf),
                                       SelectSeq(amap, LAMBDA p : p.a # item.id))
              IN  [out |-> (IF hit # << >> THEN hit[1].lines ELSE << >>) \o rest.out,
                   left |-> rest.left]
         ELSE LET rest == resolve_walk(Tail(buf), amap)
              IN  [out |-> <<item>> \o rest.out, left |-> rest.left]

\* a faulty variant of resolve_anchors, which writes every generated line
\* after the buffer
resolve_anchors_at_end(buf, anchor_to_lines, trailing_lines) ==
    SelectSeq(buf, LAMBDA x : x.shape # "anchor")
      \o ConcatAll([i \in 1..Len(anchor_to_lines) |-> anchor_to_lines[i].lines])
      \o trailing_lines

resolve_anchors(buf, anchor_to_lines, trailing_lines) ==
    LET w == resolve_walk(buf, anchor_to_lines)
    IN  w.out
          \o ConcatAll([i \in 1..Len(w.left) |-> w.left[i].lines])
          \o trailing_lines

\* ---------------------------------------------------------------- handle_line

\* k.lower() == "glyphs" or k.lower().endswith(".key")
should_strip_all_quotes_for_key(key) ==
    LET k == LowerKey(key)
    IN  k = <<"glyphs">> \/ (Len(k) >= 2 /\ Last(k) = "key")

\* re.search(r'\.key$', orig_key, re.IGNORECASE)
EndsWithDotKey(key) == Len(key) >= 2 /\ Lower(Last(key)) = "key"

\* a faulty variant of normalize_key_value, which leaves the list as written
key_value_as_written(v) == v

\* _normalize_key_value_if_needed for a key that ends in .key: split on '&',
\* strip the parts, drop the empty ones, join with ", "; a text without a
\* part left is stripped
normalize_key_value(v) ==
    IF v.sep = "&" /\ Len(v.f) > 1
    THEN LET parts == SelectSeq(v.f, LAMBDA x : x.s # "")
         IN  IF parts # << >>
             THEN [v EXCEPT !.sep = ",",
                            !.f = [i \in 1..Len(parts) |-> Fld(i > 1, parts[i].s)]]
             ELSE [v EXCEPT !.f = [i \in 1..Len(v.f) |-> Fld(FALSE, "")]]
    ELSE [v EXCEPT !.f[1].lead = FALSE]

\* _remap_member_key: the key and whether it was remapped.  The first
\* .member<1-4> segment after the player is removed.
remap_member_key(key) ==
    LET k == LowerKey(key)
        n == Len(k)
        hits == {i \in 2..n : MemberIdx(k[i]) >= 1}
    IN
    IF n >= 2 /\ k[1] \in {"p1", "p2"} /\ hits # {}
    THEN LET i == CHOOSE x \in hits : \A y \in hits : x <= y
             base == IF k[1] = "p1" THEN 1 ELSE 2
             new_p == PLAYER_MEMBER_MAP(base, MemberIdx(k[i]))
             \* the letter keeps its case: f"{p_letter}{new_p}{new_rest}"
             letter == IF key[1] \in {"P1", "P2"} THEN "P" ELSE "p"
         IN  [key |-> <<letter \o ToString(new_p)>> \o SubSeq(key, 2, i - 1)
                         \o SubSeq(key, i + 1, n),
              did |-> TRUE]
    ELSE [key |-> key, did |-> FALSE]

\* _remap_boxcursor_alpharange
remap_boxcursor_alpharange(key) ==
    LET k == LowerKey(key)
        n == Len(k)
    IN  IF n >= 2 /\ k[n] = "alpharange" /\ k[n - 1] = "boxcursor"
        THEN [key |-> SubSeq(key, 1, n - 1) \o <<"pulse">>, did |-> TRUE]
        ELSE [key |-> key, did |-> FALSE]

MenuSections == {"title info", "select info", "option info", "attract mode",
                 "pause menu", "training pause menu", "replay info"}

\* ^(.+\.itemname\..*)empty$ on whole segments
IsItemnameEmpty(key) ==
    LET k == LowerKey(key)
    IN  /\ Len(k) >= 3
        /\ Last(k) = "empty"
        /\ \E i \in 2..(Len(k) - 1) : k[i] = "itemname"
\* a faulty variant of IsEmptyText, which takes every value for an empty one
every_text_empty(v) == TRUE

IsEmptyText(v) == Len(v.f) = 1 /\ v.f[1].s = ""

title_text_lines(comment, q) ==
    LET line(suffix, text) ==
            KVLine(comment = ";", <<"title", "text", suffix>>,
                   Val(q, ",", <<Fld(FALSE, text)>>, ""), TRUE)
    IN  << line("arcade", "Ranking Arcade"),
           line("teamarcade", "Ranking Team Arcade"),
           line("teamcoop", "Ranking Team Cooperative"),
           line("timeattack", "Ranking Time Attack"),
           line("survival", "Ranking Survival"),
           line("survivalcoop", "Ranking Survival Cooperative") >>

Result(st, items) == [st |-> st, items |-> items]

AnchorItems(anchor) == IF anchor # NoAnchor THEN <<AnchorToken(anchor)>> ELSE << >>

\* a faulty variant of Captured, which lets a captured line go on to the
\* stages that follow
captured_and_passed(active, r, otherwise) ==
    IF active /\ r.handled
    THEN Result(r.st, AnchorItems(r.anchor) \o otherwise.items)
    ELSE otherwise

\* handled, anchor = _record_..._param(...); if handled: return [anchor] or []
\* (only for an active line); otherwise the stages that follow
Captured(active, r, otherwise) ==
    IF active /\ r.handled THEN Result(r.st, AnchorItems(r.anchor)) ELSE otherwise

ForcedPulse == Val(FALSE, ",", <<Fld(FALSE, "30"), Fld(TRUE, "20"), Fld(TRUE, "30")>>, "")

\* lines 1544-1549: the raw line when nothing changed, else the rebuilt line
passthrough(st, transformed_lines, changed, has_raw, raw_line, rebuilt) ==
    IF transformed_lines # << >> THEN Result(st, transformed_lines)
    ELSE IF has_raw /\ ~changed THEN Result(st, <<raw_line>>)
    ELSE Result(st, <<rebuilt>>)

\* lines 1533-1542: the output value and the key transformations
transform_stage(st, section, key, out_value, comment, changed, has_raw, raw_line) ==
    passthrough(st, apply_key_transformations(section, key, out_value, comment),
                changed, has_raw, raw_line,
                KVLine(comment = ";", key, out_value, TRUE))

\* lines 1481-1531: empty itemname, title.text expansion, velocity capture
structural_stage(st, section, key, value, value_for_logic, new_value, comment, changed, has_raw, raw_line) ==
    IF comment # ";" /\ section \in MenuSections /\ IsItemnameEmpty(key)
       /\ IsEmptyText(value_for_logic)
    THEN Result(st, << KVLine(comment = ";",
                              SubSeq(key, 1, Len(key) - 1) \o <<"spacer">>,
                              Val(FALSE, ",", <<Fld(FALSE, "-")>>, value.ic),
                              TRUE) >>)
    ELSE IF section = "hiscore info" /\ LowerKey(key) = <<"title", "text">>
    THEN Result(st, title_text_lines(comment, value.q))
    ELSE Captured(comment # ";",
                  record_velocity_param(st, section, key, value_for_logic),
                  transform_stage(st, section, key,
                      [new_value EXCEPT !.q = value.q, !.ic = value.ic],
                      comment, changed, has_raw, raw_line))

\* a faulty variant of pulse_stage, which renames the key and keeps the value
pulse_stage_value_kept(st, section, remap2, value, new_value, comment, changed, has_raw, raw_line) ==
    structural_stage(st, section, remap2.key, value, new_value, new_value,
                     comment, changed \/ remap2.did, has_raw, raw_line)

\* lines 1470-1479: the cursor pulse rename forces the value
pulse_stage(st, section, remap2, value, new_value, comment, changed, has_raw, raw_line) ==
    structural_stage(st, section, remap2.key, value, new_value,
                     IF remap2.did THEN ForcedPulse ELSE new_value,
                     comment, changed \/ remap2.did, has_raw, raw_line)

\* lines 1462-1468: the member remap
remap_stage(st, section, remap, value, new_value, comment, changed, has_raw, raw_line) ==
    pulse_stage(st, section, remap_boxcursor_alpharange(remap.key), value,
                new_value, comment, changed \/ remap.did, has_raw, raw_line)

\* lines 1443-1460: facing, offset and scale capture of an active line
capture_stage(st, section, orig_key, value, new_value, comment, changed, has_raw, raw_line) ==
    Captured(comment # ";",
             record_member_offset_param(st, section, orig_key, new_value),
             Captured(comment # ";",
                      record_member_scale_param(st, section, orig_key, new_value),
                      remap_stage(st, section, remap_member_key(orig_key), value,
                                  new_value, comment, changed, has_raw, raw_line)))

\* lines 1418-1449: .key normalization, then the facing is recorded
normalize_stage(st, section, orig_key, value, modified, new_value, comment, has_raw, raw_line) ==
    capture_stage(
        IF comment # ";"
        THEN [st EXCEPT !.fac = record_facing_param(st.fac, section, orig_key,
                                                    new_value)]
        ELSE st,
        section, orig_key,
        \* was_wrapped and not strip_all_quotes, with the inline comment
        [value EXCEPT !.q = value.q /\ ~should_strip_all_quotes_for_key(orig_key)],
        new_value, comment,
        \/ should_strip_all_quotes_for_key(orig_key) /\ value.q
        \/ modified # [value EXCEPT !.q = FALSE, !.ic = ""]
        \/ new_value # modified,
        has_raw, raw_line)

\* lines 1404-1416: the value modifications, on the unwrapped value body
modify_stage(st, section, orig_key, value, modified, comment, has_raw, raw_line) ==
    normalize_stage(st, section, orig_key, value, modified,
                    IF EndsWithDotKey(orig_key) THEN normalize_key_value(modified)
                    ELSE modified,
                    comment, has_raw, raw_line)

\* handle_line(section, orig_key, value, comment, raw_line): the engine state
\* left and the list returned.  has_raw = raw_line is not None.
handle_line(st, section, orig_key, value, comment, has_raw, raw_line) ==
    IF LowerKey(orig_key) \in keys_to_delete(section) THEN Result(st, << >>)
    ELSE modify_stage(st, section, orig_key, value,
                      value_modifications(section, orig_key,
                                          [value EXCEPT !.q = FALSE, !.ic = ""]),
                      comment, has_raw, raw_line)

\* ---------------------------------------------------------- _finalize_section

Prepend(items, r) == Result(r.st, items \o r.items)

\* step 1: the defaults of the section not seen as active keys, each run
\* through handle_line, in the order of the table
RECURSIVE missing_items(_, _, _, _)
missing_next(this, seen, section_name, defaults) ==
    Prepend(this.items, missing_items(this.st, seen, section_name, defaults))

missing_items(st, seen, section_name, defaults) ==
    IF defaults = << >> THEN Result(st, << >>)
    ELSE missing_next(
             IF LowerKey(Head(defaults)[1]) \notin seen
             THEN handle_line(st, section_name, Head(defaults)[1], Head(defaults)[2],
                              "", FALSE, << >>)
             ELSE Result(st, << >>),
             seen, section_name, Tail(defaults))

\* a faulty variant of insert_at: after the whole buffer
insert_at_end(buf) == Len(buf)

\* the index after the last item that is neither blank nor a comment
insert_at(buf) ==
    LET solid == {i \in 1..Len(buf) : ~is_trailing_comment_or_blank_line(buf[i])}
    IN  IF solid = {} THEN 0 ELSE CHOOSE i \in solid : \A j \in solid : j <= i

\* a faulty variant of insert_missing, which loses the trailing run
insert_missing_losing_tail(buf, items) ==
    IF items = << >> THEN buf
    ELSE SubSeq(buf, 1, insert_at(buf)) \o items

insert_missing(buf, items) ==
    IF items = << >> THEN buf
    ELSE SubSeq(buf, 1, insert_at(buf)) \o items
           \o SubSeq(buf, insert_at(buf) + 1, Len(buf))

\* a faulty variant of flush_and_resolve, which leaves the anchors in the
\* buffer and writes the generated lines after it
flush_unresolved(ctr, buf, f1, f2, f3) ==
    Result(EngineState(f1.reg, f2.reg, f3.fac, f3.reg, ctr),
           buf \o ConcatAll([i \in 1..Len(f1.amap \o f2.amap \o f3.amap) |->
                               (f1.amap \o f2.amap \o f3.amap)[i].lines])
               \o f1.tail \o f2.tail \o f3.tail)

\* step 2 and 3: flush offsets, scales, velocities; resolve the anchors
flush_and_resolve(ctr, buf, f1, f2, f3) ==
    Result(EngineState(f1.reg, f2.reg, f3.fac, f3.reg, ctr),
           resolve_anchors(buf, f1.amap \o f2.amap \o f3.amap,
                           f1.tail \o f2.tail \o f3.tail))

finalize_with(miss, section_name, buf) ==
    flush_and_resolve(miss.st.ctr, insert_missing(buf, miss.items),
                      flush_member_offsets_for_section(miss.st.off, section_name),
                      flush_member_scales_for_section(miss.st.scl, section_name),
                      flush_velocity_for_section(miss.st.vel, miss.st.fac,
                                                 section_name))

\* _finalize_section(section_name, buf): the engine state left and the list
\* returned.  seen = seen_keys_by_section.
finalize_section(st, seen, section_name, buf) ==
    IF section_name = "" THEN Result(st, buf)
    ELSE finalize_with(
             missing_items(st,
                           IF section_name \in DOMAIN seen THEN seen[section_name]
                           ELSE {},
                           section_name, append_if_missing(section_name)),
             section_name, buf)

Engine == EngineState(member_offset_params, member_scale_params, facing_params,
                      velocity_params, anchor_counter)

SetEngine(st) ==
    /\ member_offset_params' = st.off
    /\ member_scale_params' = st.scl
    /\ facing_params' = st.fac
    /\ velocity_params' = st.vel
    /\ anchor_counter' = st.ctr

EngineUnchanged ==
    UNCHANGED <<member_offset_params, member_scale_params, facing_params,
                velocity_params, anchor_counter>>

VersionLine == KVLine(FALSE, <<"ikemenversion">>, V1(TARGET_IKEMEN_VERSION_STR), TRUE)

InfoHeader == SectionLine("Info", "", "")

NoCall == [called |-> FALSE]

NoFinal == [called |-> FALSE]

\* no file was created yet
NotMade == [made |-> FALSE]

\* the value the regular expression captures: blanks after '=' are dropped
captured_value(v) == IF v.q THEN v ELSE [v EXCEPT !.f[1].lead = FALSE]

IsInfoHeader(line) ==
    line.shape = "section" /\ SECTION_RENAMES(Lower(line.name)) = "info"

IsActiveVersionLine(line) ==
    line.shape = "kv" /\ ~line.semi /\ LowerKey(line.key) = <<"ikemenversion">>

\* has_info and raw_version are what _detect_ikemen_version found in the file
\* that is now read, unless the caller gave none (has_info = None).
DetectedAllows(line) ==
    /\ has_info = "False" => ~IsInfoHeader(line)
    /\ (has_info = "True" /\ raw_version = None) =>
          ~(current_section = "info" /\ IsActiveVersionLine(line))

DetectedAtEnd ==
    /\ has_info = "True" => \E i \in 1..Len(input) : IsInfoHeader(input[i])
    /\ (has_info = "True" /\ raw_version # None) => ikemenversion_written

\* the state when the read loop starts: lines 1056-1150
InitWith(lines, infos, versions) ==
    /\ alphabet = lines
    /\ pc = "reading"
    /\ has_info \in infos
    /\ raw_version \in versions
    /\ has_info # "True" => raw_version = None
    /\ input = << >>
    /\ output = IF has_info = "False"
                THEN <<InfoHeader, VersionLine, TextLine("blank", "")>>
                ELSE << >>
    /\ current_section = ""
    /\ info_section_seen = (has_info = "False")
    /\ ikemenversion_written = (has_info = "False")
    /\ seen_keys_by_section = EmptyRegistry
    /\ section_buffer = << >>
    /\ member_offset_params = EmptyRegistry
    /\ member_scale_params = EmptyRegistry
    /\ facing_params = EmptyRegistry
    /\ velocity_params = EmptyRegistry
    /\ anchor_counter = 0
    /\ sec_start = 0
    /\ last = NoCall
    /\ lastFinal = NoFinal
    /\ ini_file = << >>
    /\ args_stdout = FALSE
    /\ main_pc = "none"
    /\ backup = NotMade
    /\ written = NotMade

CanRead(line) ==
    /\ pc = "reading"
    /\ Len(input) < MaxLines
    /\ line \in alphabet
    /\ DetectedAllows(line)

Here == Len(input) + 1

\* a line that starts with ';' goes to the buffer as it is
ReadComment ==
    \E line \in alphabet :
        /\ CanRead(line)
        /\ StartsWithSemicolon(line)
        /\ input' = Append(input, Stamp(line, Here))
        /\ section_buffer' = Append(section_buffer, Stamp(line, Here))
        /\ EngineUnchanged
        /\ UNCHANGED <<alphabet, pc, has_info, raw_version, output, current_section,
                       info_section_seen, ikemenversion_written,
                       seen_keys_by_section, sec_start, last, lastFinal>>
        /\ UNCHANGED main_vars

FinalRecord(section, buf, out) ==
    [called |-> TRUE, sec |-> section, first |-> sec_start + 1, last |-> Len(input),
     buf |-> buf, out |-> out]
\* a faulty variant of SectionStep, which prints the header before the lines
\* of the section it closes
section_step_header_first(line, fin, sec_lower, insert) ==
    /\ input' = Append(input, Stamp(line, Here))
    /\ output' = output
                   \o <<Stamp(SectionLine(SECTION_CANONICAL_CASE(sec_lower, line.name),
                                          line.pre, line.suf), Here)>>
                   \o fin.items
    /\ SetEngine(fin.st)
    /\ section_buffer' = IF insert THEN <<VersionLine>> ELSE << >>
    /\ current_section' = sec_lower
    /\ info_section_seen' = (info_section_seen \/ sec_lower = "info")
    /\ ikemenversion_written' = (ikemenversion_written \/ insert)
    /\ sec_start' = Here
    /\ lastFinal' = FinalRecord(current_section, section_buffer, fin.items)

SectionStep(line, fin, sec_lower, insert) ==
    /\ input' = Append(input, Stamp(line, Here))
    /\ output' = output \o fin.items
                   \o <<Stamp(SectionLine(SECTION_CANONICAL_CASE(sec_lower, line.name),
                                          line.pre, line.suf), Here)>>
    /\ SetEngine(fin.st)
    /\ section_buffer' = IF insert THEN <<VersionLine>> ELSE << >>
    /\ current_section' = sec_lower
    /\ info_section_seen' = (info_section_seen \/ sec_lower = "info")
    /\ ikemenversion_written' = (ikemenversion_written \/ insert)
    /\ sec_start' = Here
    /\ lastFinal' = FinalRecord(current_section, section_buffer, fin.items)

\* a [Section] line: finalize and print the buffer, switch section, print the
\* header
ReadSectionHeader ==
    \E line \in alphabet :
        /\ CanRead(line)
        /\ ~StartsWithSemicolon(line)
        /\ line.shape = "section"
        /\ SectionStep(line,
                       finalize_section(Engine, seen_keys_by_section,
                                        current_section, section_buffer),
                       SECTION_RENAMES(Lower(line.name)),
                       /\ SECTION_RENAMES(Lower(line.name)) = "info"
                       /\ raw_version = None
                       /\ ~ikemenversion_written)
        /\ UNCHANGED <<alphabet, pc, has_info, raw_version, seen_keys_by_section, last>>
        /\ UNCHANGED main_vars

KeyValueStep(line, raw_line, comment_marker, force, r) ==
    /\ input' = Append(input, raw_line)
    /\ seen_keys_by_section' =
         IF comment_marker # ";"
         THEN Put(seen_keys_by_section, current_section,
                  (IF current_section \in DOMAIN seen_keys_by_section
                   THEN seen_keys_by_section[current_section] ELSE {})
                    \cup {LowerKey(line.key)})
         ELSE seen_keys_by_section
    /\ ikemenversion_written' = (ikemenversion_written \/ force)
    /\ SetEngine(r.st)
    /\ section_buffer' = section_buffer \o StampAll(r.items, Here)
    /\ last' = [called |-> TRUE, section |-> current_section,
                line |-> raw_line, items |-> StampAll(r.items, Here)]

\* the value given to handle_line: the target version replaces the value of an
\* active ikemenversion line of [Info]
ForceVersion(section, line) ==
    /\ section = "info"
    /\ ~line.semi
    /\ LowerKey(line.key) = <<"ikemenversion">>
\* a faulty variant of RawValue, which drops the inline comment of the version
\* line it rewrites
raw_value_without_comment(section, line) ==
    IF ForceVersion(section, line)
    THEN V1(TARGET_IKEMEN_VERSION_STR)
    ELSE captured_value(line.val)
\* a faulty variant of RawValue, which leaves the value of a version line as
\* read
raw_value_as_read(section, line) == captured_value(line.val)

RawValue(section, line) ==
    IF ForceVersion(section, line)
    THEN Val(FALSE, ",", <<Fld(FALSE, TARGET_IKEMEN_VERSION_STR)>>,
             captured_value(line.val).ic)
    ELSE captured_value(line.val)

\* new_items = handle_line(section=current_section, orig_key=clean_key, ...)
handle_input_line(st, section, line, raw_line) ==
    handle_line(st, section, line.key, RawValue(section, line),
                IF line.semi THEN ";" ELSE "",
                ~ForceVersion(section, line)
                  /\ RawValue(section, line) = captured_value(line.val),
                raw_line)

\* a key = value line
ReadKeyValue ==
    \E line \in alphabet :
        /\ CanRead(line)
        /\ ~StartsWithSemicolon(line)
        /\ line.shape = "kv"
        /\ KeyValueStep(line, Stamp(line, Here), IF line.semi THEN ";" ELSE "",
                        ForceVersion(current_section, line),
                        handle_input_line(Engine, current_section, line,
                                          Stamp(line, Here)))
        /\ UNCHANGED <<alphabet, pc, has_info, raw_version, output, current_section,
                       info_section_seen, sec_start, lastFinal>>
        /\ UNCHANGED main_vars

\* any other line is passed unchanged
ReadVerbatim ==
    \E line \in alphabet :
        /\ CanRead(line)
        /\ ~StartsWithSemicolon(line)
        /\ line.shape \notin {"section", "kv"}
        /\ input' = Append(input, Stamp(line, Here))
        /\ section_buffer' = Append(section_buffer, Stamp(line, Here))
        /\ EngineUnchanged
        /\ UNCHANGED <<alphabet, pc, has_info, raw_version, output, current_section,
                       info_section_seen, ikemenversion_written,
                       seen_keys_by_section, sec_start, last, lastFinal>>
        /\ UNCHANGED main_vars

\* a faulty variant of EndStep, which adds [Info] whenever the file held none
end_step_adding_info(fin) ==
    /\ output' = output \o fin.items
                   \o (IF \A i \in 1..Len(input) : ~IsInfoHeader(input[i])
                       THEN <<TextLine("blank", ""), InfoHeader, VersionLine>>
                       ELSE << >>)
    /\ SetEngine(fin.st)
    /\ lastFinal' = FinalRecord(current_section, section_buffer, fin.items)

EndStep(fin) ==
    /\ output' = output \o fin.items
                   \o (IF has_info = None /\ ~info_section_seen
                       THEN <<TextLine("blank", ""), InfoHeader, VersionLine>>
                       ELSE << >>)
    /\ SetEngine(fin.st)
    /\ lastFinal' = FinalRecord(current_section, section_buffer, fin.items)

\* end of file: finalize and print the last section, add [Info] for a caller
\* that gave no has_info
EndOfFile ==
    /\ pc = "reading"
    /\ DetectedAtEnd
    /\ EndStep(finalize_section(Engine, seen_keys_by_section, current_section,
                                section_buffer))
    /\ pc' = "done"
    /\ UNCHANGED <<alphabet, has_info, raw_version, input, current_section,
                   info_section_seen, ikemenversion_written, seen_keys_by_section,
                   section_buffer, sec_start, last>>
    /\ UNCHANGED main_vars

Next ==
    \/ ReadComment
    \/ ReadSectionHeader
    \/ ReadKeyValue
    \/ ReadVerbatim
    \/ EndOfFile

\* ------------------------------------------------------------------------ main

\* TARGET_IKEMEN_VERSION = 1.0.  Versions are held in hundredths.
TARGET_IKEMEN_VERSION == 100

\* _parse_ikemen_version_to_float returning None
NoVersion == 0 - 1

\* parts[0] + "." + parts[1] of value_body.split("."): the text up to its
\* second dot, for the version texts the model tries
VersionCore(s) ==
    CASE s = "1.10.2" -> "1.10"
      [] s = "0.9.9" -> "0.9"
      [] OTHER -> s

\* float(core), in hundredths; NoVersion on ValueError
VersionFloat(core) ==
    CASE core = "0.99" -> 99
      [] core = "0.9" -> 90
      [] core = "1" -> 100
      [] core = "1.0" -> 100
      [] core = "1.10" -> 110
      [] OTHER -> NoVersion

\* _parse_ikemen_version_to_float: the inline comment and the quotes are
\* dropped; an empty body is None; a body with a comma is no number
parse_ikemen_version_to_float(v) ==
    IF Len(v.f) # 1 \/ v.f[1].s = "" THEN NoVersion
    ELSE VersionFloat(VersionCore(v.f[1].s))

Detected(found, raw, parsed) ==
    [has_info |-> IF found THEN "True" ELSE "False", raw_version |-> raw,
     parsed_version |-> parsed]

\* the loop of _detect_ikemen_version: it stops at the first active
\* ikemenversion line of an [Info] section
RECURSIVE detect_scan(_, _, _)
detect_scan(lines, section, found) ==
    IF lines = << >> THEN Detected(found, None, NoVersion)
    ELSE IF Head(lines).shape = "section"
    THEN detect_scan(Tail(lines), Lower(Head(lines).name),
                     found \/ Lower(Head(lines).name) = "info")
    ELSE IF /\ Head(lines).shape = "kv"
            /\ ~Head(lines).semi
            /\ section = "info"
            /\ LowerKey(Head(lines).key) = <<"ikemenversion">>
    THEN Detected(found, Head(lines).val.f[1].s,
                  parse_ikemen_version_to_float(Head(lines).val))
    ELSE detect_scan(Tail(lines), section, found)

detect_ikemen_version(lines) == detect_scan(lines, "", FALSE)

\* a faulty variant of patch_needed, which patches the target version too
patch_needed_at_target(d) ==
    \/ d.has_info = "False"
    \/ d.raw_version = None
    \/ d.parsed_version = NoVersion
    \/ d.parsed_version <= TARGET_IKEMEN_VERSION

\* lines 1299-1319 of main
patch_needed(d) ==
    \/ d.has_info = "False"
    \/ d.raw_version = None
    \/ d.parsed_version = NoVersion
    \/ d.parsed_version < TARGET_IKEMEN_VERSION

Made(content) == [made |-> TRUE, content |-> content]

\* the state when main starts on a file of up to MaxFile lines
InitMain(lines) ==
    /\ alphabet = lines
    /\ pc = "start"
    /\ has_info = None
    /\ raw_version = None
    /\ input = << >>
    /\ output = << >>
    /\ current_section = ""
    /\ info_section_seen = FALSE
    /\ ikemenversion_written = FALSE
    /\ seen_keys_by_section = EmptyRegistry
    /\ section_buffer = << >>
    /\ member_offset_params = EmptyRegistry
    /\ member_scale_params = EmptyRegistry
    /\ facing_params = EmptyRegistry
    /\ velocity_params = EmptyRegistry
    /\ anchor_counter = 0
    /\ sec_start = 0
    /\ last = NoCall
    /\ lastFinal = NoFinal
    /\ ini_file \in UNION {[1..n -> lines] : n \in 0..MaxFile}
    /\ args_stdout \in BOOLEAN
    /\ main_pc = "start"
    /\ backup = NotMade
    /\ written = NotMade

ProcessUntouched ==
    UNCHANGED <<alphabet, input, current_section, seen_keys_by_section,
                section_buffer, sec_start, last, lastFinal>>

\* lines 1321-1328: no patch is needed; with --stdout the file is printed
MainSkip ==
    /\ main_pc = "start"
    /\ ~patch_needed(detect_ikemen_version(ini_file))
    /\ output' = IF args_stdout THEN ini_file ELSE output
    /\ main_pc' = "skipped"
    /\ EngineUnchanged
    /\ ProcessUntouched
    /\ UNCHANGED <<pc, has_info, raw_version, info_section_seen,
                   ikemenversion_written, ini_file, args_stdout, backup, written>>

\* lines 1346-1355: the backup, which may fail with a warning
MainBackup ==
    /\ main_pc = "start"
    /\ patch_needed(detect_ikemen_version(ini_file))
    /\ ~args_stdout
    /\ backup' \in {Made(ini_file), NotMade}
    /\ main_pc' = "backed up"
    /\ EngineUnchanged
    /\ ProcessUntouched
    /\ UNCHANGED <<pc, has_info, raw_version, output, info_section_seen,
                   ikemenversion_written, ini_file, args_stdout, written>>

\* the call of process_ini with what was detected, up to the read loop
StartProcess(d) ==
    /\ has_info' = d.has_info
    /\ raw_version' = d.raw_version
    /\ output' = IF d.has_info = "False"
                 THEN <<InfoHeader, VersionLine, TextLine("blank", "")>>
                 ELSE << >>
    /\ info_section_seen' = (d.has_info = "False")
    /\ ikemenversion_written' = (d.has_info = "False")
    /\ pc' = "reading"

\* lines 1332-1334 and 1357-1358
MainProcess ==
    /\ \/ main_pc = "start" /\ args_stdout
              /\ patch_needed(detect_ikemen_version(ini_file))
       \/ main_pc = "backed up"
    /\ StartProcess(detect_ikemen_version(ini_file))
    /\ main_pc' = "patching"
    /\ EngineUnchanged
    /\ ProcessUntouched
    /\ UNCHANGED <<ini_file, args_stdout, backup, written>>

\* a step of process_ini on the file: the line read is the next line of the
\* file, and the end comes after its last line
ReadFromFile ==
    /\ main_pc = "patching"
    /\ Next
    /\ IF pc' = "done" THEN Len(input) = Len(ini_file)
       ELSE /\ Len(input) < Len(ini_file)
            /\ Strip(input'[Len(input')]) = ini_file[Len(input')]

\* a faulty variant of MainReadError: the error is swallowed and process_ini
\* returns with what it has written so far
read_error_swallowed ==
    /\ main_pc = "patching"
    /\ pc = "reading"
    /\ pc' = "done"
    /\ EngineUnchanged
    /\ ProcessUntouched
    /\ UNCHANGED <<has_info, raw_version, output, info_section_seen,
                   ikemenversion_written>>
    /\ UNCHANGED main_vars

\* open() or the iteration over the file raises OSError: process_ini and main
\* have no handler
MainReadError ==
    /\ main_pc = "patching"
    /\ pc = "reading"
    /\ pc' = "raised"
    /\ main_pc' = "raised"
    /\ EngineUnchanged
    /\ ProcessUntouched
    /\ UNCHANGED <<has_info, raw_version, output, info_section_seen,
                   ikemenversion_written, ini_file, args_stdout, backup, written>>

\* lines 1359-1361: process_ini returned, the buffer is written to the file;
\* with --stdout there is nothing left to write
MainFinish ==
    /\ main_pc = "patching"
    /\ pc = "done"
    /\ written' = IF args_stdout THEN written ELSE Made(StripAll(output))
    /\ main_pc' = "patched"
    /\ EngineUnchanged
    /\ ProcessUntouched
    /\ UNCHANGED <<pc, has_info, raw_version, output, info_section_seen,
                   ikemenversion_written, ini_file, args_stdout, backup>>

NextMain ==
    \/ MainSkip
    \/ MainBackup
    \/ MainProcess
    \/ ReadFromFile
    \/ MainReadError
    \/ MainFinish

\* ------------------------------------------------------------ input alphabets

Comment1 == TextLine("comment", "; a comment")
Comment2 == TextLine("comment", "; another comment")
Blank == TextLine("blank", "")
Malformed == TextLine("malformed", "no equals sign")

\* the value text "x,y": a pair written without a blank
Tight(x, y) == Val(FALSE, ",", <<Fld(FALSE, x), Fld(FALSE, y)>>, "")

Active(key, val) == KVLine(FALSE, key, val, TRUE)
Commented(key, val) == KVLine(TRUE, key, val, TRUE)

Quoted(text) == Val(TRUE, ",", <<Fld(FALSE, text)>>, "")

\* offsets in two roster sections, one with and one without a done state
OffsetLines ==
    { SectionLine("Select Info", "", ""),
      SectionLine("Victory Screen", "", ""),
      Comment1,
      Blank,
      Active(<<"p1", "offset">>, Tight("10", "20")),
      Active(<<"p1", "member2", "offset">>, Tight("1", "1")),
      Active(<<"p2", "member3", "face", "offset">>, V2("2", "-3")),
      Commented(<<"p1", "member4", "offset">>, V2("7", "7")),
      Active(<<"p1", "name", "font">>, V2("1", "0")) }

SpecOffset == InitWith(OffsetLines, {None}, {None}) /\ [][Next]_vars

\* scales, and one offset, in the same two sections
ScaleLines ==
    { SectionLine("Select Info", "", ""),
      SectionLine("Victory Screen", "", ""),
      Comment1,
      Blank,
      Active(<<"p1", "scale">>, V2("2", "3")),
      Active(<<"p1", "member2", "scale">>, Tight("2", "2")),
      Active(<<"p2", "member3", "face", "scale">>, V1("3")),
      Active(<<"p2", "face", "scale">>, V2("4", "x")),
      Active(<<"P1", "Member2", "Scale">>, V2("5", "1")),
      Active(<<"p2", "face", "offset">>, V2("1", "2")) }

SpecScale == InitWith(ScaleLines, {None}, {None}) /\ [][Next]_vars

\* slide speeds and facings in the two sections that turn them into velocities
VelocityLines ==
    { SectionLine("VS Screen", "", ""),
      SectionLine("Victory Screen", "", ""),
      Comment1,
      Blank,
      Active(<<"p1", "facing">>, V1("-1")),
      Active(<<"p1", "facing">>, V1("2")),
      Active(<<"p1", "slide", "speed">>, V2("5", "0")),
      Active(<<"p1", "slide", "speed">>, Tight("3", "4")),
      Active(<<"p2", "slide", "speed">>, V2("1", "1")),
      Active(<<"p2", "face", "facing">>, V1("-1")) }

SpecVelocity == InitWith(VelocityLines, {None}, {None}) /\ [][Next]_vars

\* deletions, member remaps and renames
RuleLines ==
    { SectionLine("VS Screen", "", ""),
      SectionLine("Victory Screen", "", ""),
      Comment1,
      Blank,
      Commented(<<"p2", "accept", "key">>, V1("a")),
      Active(<<"p2", "accept", "key">>, V1("b")),
      Active(<<"winquote", "time">>, V1("5")),
      Active(<<"p1", "member3", "icon", "offset">>, V2("0", "0")),
      Active(<<"p2", "member2", "name", "font">>, V2("1", "0")),
      Active(<<"p1", "member2", "slide", "speed">>, V2("5", "0")) }

SpecRules == InitWith(RuleLines, {None}, {None}) /\ [][Next]_vars

\* keys that have both a value rewrite and a rename
RewriteLines ==
    { SectionLine("Victory Screen", "", ""),
      SectionLine("Dialogue Info", "", ""),
      SectionLine("Hiscore Info", "", ""),
      Comment1,
      Blank,
      Active(<<"winquote", "spacing">>, Tight("3", "4")),
      Active(<<"Winquote", "Spacing">>, V1("7")),
      Active(<<"p1", "text", "spacing">>, V2("1", "2")),
      Active(<<"item", "data", "score", "text">>, Quoted("%s")),
      Active(<<"winquote", "delay">>, V1("2")) }

SpecRewrite == InitWith(RewriteLines, {None}, {None}) /\ [][Next]_vars

\* lines that are neither headers nor key = value lines, around aggregation
\* and appended defaults
VerbatimLines ==
    { SectionLine("Option Info", "", ""),
      SectionLine("Select Info", "", ""),
      Comment1,
      Comment2,
      Blank,
      Malformed,
      Active(<<"p1", "offset">>, Tight("10", "20")),
      Active(<<"p1", "member2", "offset">>, Tight("1", "1")),
      Active(<<"keymenu", "pos">>, V2("1", "1")) }

SpecVerbatim == InitWith(VerbatimLines, {None, "False"}, {None}) /\ [][Next]_vars

\* the value text written with '&' between its fields
Amp(q, f, ic) == Val(q, "&", f, ic)

\* key lists in a section that renames one and in a section that deletes one
KeyListLines ==
    { SectionLine("Title Info", "", ""),
      SectionLine("VS Screen", "", ""),
      Comment1,
      Blank,
      Active(<<"menu", "done", "key">>,
             Amp(FALSE, <<Fld(FALSE, "a"), Fld(TRUE, "b"), Fld(FALSE, "c")>>, "")),
      Active(<<"menu", "accept", "key">>,
             Amp(FALSE, <<Fld(FALSE, "a"), Fld(FALSE, ""), Fld(TRUE, "b")>>, " ; note")),
      Active(<<"p1", "skip", "key">>,
             Amp(FALSE, <<Fld(FALSE, ""), Fld(FALSE, "")>>, "")),
      Active(<<"p1", "member2", "key">>,
             Amp(TRUE, <<Fld(FALSE, "a"), Fld(TRUE, "b")>>, "")),
      Active(<<"p2", "accept", "key">>, V2("x", "y")),
      Active(<<"menu", "done", "snd">>,
             Amp(FALSE, <<Fld(FALSE, "1"), Fld(FALSE, "2")>>, "")) }

SpecKeyList == InitWith(KeyListLines, {None}, {None}) /\ [][Next]_vars

\* one roster section that may occur twice, with every kind of aggregated line
RepeatLines ==
    { SectionLine("VS Screen", "", ""),
      SectionLine("Victory Screen", "", ""),
      Comment1,
      Blank,
      Active(<<"p1", "facing">>, V1("-1")),
      Active(<<"p1", "slide", "speed">>, V2("5", "0")),
      Active(<<"p1", "offset">>, Tight("10", "20")),
      Active(<<"p1", "member2", "scale">>, Tight("2", "2")) }

SpecRepeat == InitWith(RepeatLines, {None}, {None}) /\ [][Next]_vars

\* defaults of option info, one given, one commented out, and a commented
\* offset in a roster section
DefaultLines ==
    { SectionLine("Option Info", "", ""),
      SectionLine("Select Info", "", ""),
      Comment1,
      Blank,
      Malformed,
      Active(<<"keymenu", "pos">>, V2("1", "1")),
      Commented(<<"keymenu", "window", "visibleitems">>, V1("5")),
      Commented(<<"p1", "member2", "offset">>, V2("1", "2")) }

SpecDefaults == InitWith(DefaultLines, {None}, {None}) /\ [][Next]_vars

\* offsets, scales and slide speeds with a component missing or not a number
MalformedLines ==
    { SectionLine("Select Info", "", ""),
      SectionLine("Victory Screen", "", ""),
      Comment1,
      Blank,
      Active(<<"p1", "offset">>, V2("x", "5")),
      Active(<<"p1", "member2", "offset">>, V1("3")),
      Active(<<"p1", "scale">>, V2("", "2")),
      Active(<<"p1", "member2", "scale">>, V2("2", "abc")),
      Active(<<"p2", "face2", "slide", "speed">>, V2("4", "fast")),
      Active(<<"p1", "face2", "slide", "speed">>, V1("")) }

SpecMalformed == InitWith(MalformedLines, {None}, {None}) /\ [][Next]_vars

Version(text) == Active(<<"ikemenversion">>, V1(text))

\* files with and without [Info], with versions below, at and above the target
VersionLines ==
    { SectionLine("Info", "", ""),
      Blank,
      Version("0.99"),
      Version("1.0"),
      Version("1.10.2"),
      Version("v1"),
      Commented(<<"ikemenversion">>, V1("1.0")) }

SpecMain == InitMain(VersionLines) /\ [][NextMain]_vars

\* two lines for one offset slot, two for one scale slot, two for one
\* velocity slot
AnchorLines ==
    { SectionLine("Select Info", "", ""),
      SectionLine("VS Screen", "", ""),
      Comment1,
      Blank,
      Active(<<"p1", "offset">>, Tight("10", "20")),
      Active(<<"p1", "member2", "offset">>, Tight("1", "1")),
      Active(<<"p1", "scale">>, V2("2", "3")),
      Active(<<"p1", "member3", "scale">>, V2("2", "2")),
      Active(<<"p1", "face2", "slide", "speed">>, V2("5", "0")),
      Active(<<"p1", "face2", "slide", "speed">>, V2("3", "4")) }

SpecAnchors == InitWith(AnchorLines, {None}, {None}) /\ [][Next]_vars

\* a facing of each kind, with a value of its own, and a speed of each kind
FacingLines ==
    { SectionLine("VS Screen", "", ""),
      SectionLine("Select Info", "", ""),
      Comment1,
      Malformed,
      Active(<<"p1", "facing">>, V1("-1")),
      Active(<<"p1", "face", "facing">>, V1("2")),
      Active(<<"p1", "face2", "facing">>, V1("3")),
      Active(<<"p1", "slide", "speed">>, V2("5", "0")),
      Active(<<"p1", "face", "slide", "speed">>, V2("1", "1")),
      Active(<<"p1", "face2", "slide", "speed">>, V2("3", "4")) }

SpecFacing == InitWith(FacingLines, {None}, {None}) /\ [][Next]_vars

\* bases and overrides of members 1, 2 and 4, for an offset and a scale slot
TargetLines ==
    { SectionLine("Select Info", "", ""),
      SectionLine("Victory Screen", "", ""),
      Comment1,
      Malformed,
      Active(<<"p1", "offset">>, V2("10", "20")),
      Active(<<"p1", "member1", "offset">>, V2("1", "2")),
      Active(<<"p1", "member2", "offset">>, V2("3", "4")),
      Active(<<"p2", "face", "scale">>, V2("2", "3")),
      Active(<<"p2", "member1", "face", "scale">>, V2("2", "2")),
      Active(<<"p2", "member4", "face", "scale">>, V2("3", "1")) }

SpecTargets == InitWith(TargetLines, {None}, {None}) /\ [][Next]_vars

\* a section with defaults, a roster section, and lines that are kept,
\* completed and aggregated
LifecycleLines ==
    { SectionLine("Option Info", "", ""),
      SectionLine("VS Screen", "", ""),
      Comment1,
      Blank,
      Malformed,
      Active(<<"keymenu", "pos">>, V2("1", "1")),
      Active(<<"p1", "offset">>, V2("10", "20")),
      Active(<<"p1", "slide", "speed">>, V2("5", "0")) }

SpecLifecycle == InitWith(LifecycleLines, {None}, {None}) /\ [][Next]_vars

\* a line of each aggregated shape, one of them also commented out
CaptureLines ==
    { SectionLine("Select Info", "", ""),
      SectionLine("VS Screen", "", ""),
      Comment1,
      Malformed,
      Active(<<"p1", "offset">>, V2("10", "20")),
      Commented(<<"p1", "offset">>, V2("1", "2")),
      Active(<<"p2", "member3", "face", "scale">>, V2("2", "3")),
      Active(<<"p1", "slide", "speed">>, V2("5", "0")),
      Active(<<"p1", "face", "slide", "speed">>, V2("1", "1")),
      Active(<<"p2", "face2", "slide", "speed">>, V2("3", "4")) }

SpecCapture == InitWith(CaptureLines, {None}, {None}) /\ [][Next]_vars

\* lines of the aggregated shapes, before any header, in a section that is
\* not a roster section and in one that is
ScopeLines ==
    { SectionLine("Title Info", "", ""),
      SectionLine("Select Info", "", ""),
      Comment1,
      Malformed,
      Active(<<"p1", "offset">>, V2("10", "20")),
      Active(<<"p1", "member2", "scale">>, V2("2", "2")),
      Active(<<"p1", "facing">>, V1("-1")),
      Active(<<"p1", "face", "slide", "speed">>, V2("5", "0")),
      Active(<<"p2", "slide", "speed">>, V2("3", "4")) }

SpecScope == InitWith(ScopeLines, {None}, {None}) /\ [][Next]_vars

\* keys that two rules of title info match, keys that one matches, and a key
\* of select info whose rule has two templates
FirstMatchLines ==
    { SectionLine("Title Info", "", ""),
      SectionLine("Select Info", "", ""),
      Comment1,
      Malformed,
      Active(<<"menu", "bg", "active", "x", "anim">>, V1("1")),
      Active(<<"menu", "bg", "active", "x", "y", "offset">>, V2("1", "2")),
      Active(<<"menu", "bg", "x", "anim">>, V1("2")),
      Active(<<"menu", "bg", "active", "anim">>, V1("3")),
      Active(<<"stage", "active", "font">>, V2("1", "0")) }

SpecFirstMatch == InitWith(FirstMatchLines, {None}, {None}) /\ [][Next]_vars

\* cell and cursor keys with 1-based indices, with a leading zero, with a
\* row 0, and with a suffix that is not one of the rule's
IndexLines ==
    { SectionLine("Select Info", "", ""),
      SectionLine("Title Info", "", ""),
      Comment1,
      Malformed,
      Active(<<"cell", "1", "1", "offset">>, V2("4", "5")),
      Active(<<"cell", "01", "3", "skip">>, V1("1")),
      Active(<<"cell", "0", "2", "facing">>, V1("-1")),
      Active(<<"cell", "2", "2", "spr">>, V2("1", "0")),
      Active(<<"p1", "cursor", "active", "1", "2", "anim">>, V1("7")),
      Active(<<"p2", "cursor", "done", "3", "1", "scale">>, V2("2", "2")) }

SpecIndex == InitWith(IndexLines, {None}, {None}) /\ [][Next]_vars

\* a key = value line spelled without blanks around '='
Unspaced(key, val) == KVLine(FALSE, key, val, FALSE)

\* lines spelled otherwise than `key = value`: kept as they are, renamed,
\* remapped, and a version line with the target version
PassthroughLines ==
    { SectionLine("Info", "", ""),
      SectionLine("Title Info", "", ""),
      Comment1,
      Malformed,
      Unspaced(<<"menu", "pos">>, Tight("1", "2")),
      Unspaced(<<"name">>, Val(TRUE, ",", <<Fld(FALSE, "x")>>, " ; note")),
      Unspaced(<<"menu", "accept", "key">>, V1("a")),
      Unspaced(<<"p1", "member2", "name">>, V1("k")),
      Unspaced(<<"ikemenversion">>, V1("1.0")) }

SpecPassthrough == InitWith(PassthroughLines, {None}, {None}) /\ [][Next]_vars

\* boxcursor.alpharange keys with a plain value, a value in quotes, an inline
\* comment, a member segment and a key that a rule of its section renames,
\* and a key that only looks like one
PulseLines ==
    { SectionLine("Title Info", "", ""),
      SectionLine("Hiscore Info", "", ""),
      Comment1,
      Malformed,
      Active(<<"menu", "boxcursor", "alpharange">>, V2("10", "20")),
      Active(<<"menu", "boxcursor", "alpharange">>, Quoted("10")),
      Active(<<"menu", "boxcursor", "alpharange">>,
             Val(FALSE, ",", <<Fld(FALSE, "5")>>, " ; note")),
      Active(<<"p1", "member2", "boxcursor", "alpharange">>, V1("1")),
      Active(<<"item", "data", "boxcursor", "alpharange">>, V1("7")),
      Active(<<"menu", "xboxcursor", "alpharange">>, V1("5")) }

SpecPulse == InitWith(PulseLines, {None}, {None}) /\ [][Next]_vars

\* an itemname key that ends with empty, with an empty value (bare, in quotes,
\* before an inline comment), with a value, and after a member segment; and
\* an itemname key that does not end with empty
ItemLines ==
    { SectionLine("Title Info", "", ""),
      SectionLine("Hiscore Info", "", ""),
      Comment1,
      Malformed,
      Active(<<"menu", "itemname", "foo", "empty">>, V1("")),
      Active(<<"menu", "itemname", "foo", "empty">>, Quoted("")),
      Active(<<"menu", "itemname", "foo", "empty">>,
             Val(FALSE, ",", <<Fld(FALSE, "")>>, "; note")),
      Active(<<"menu", "itemname", "foo", "empty">>, V1("x")),
      Active(<<"p1", "member2", "itemname", "empty">>, V1("")),
      Active(<<"menu", "itemname", "foo", "back">>, V1("")) }

SpecItems == InitWith(ItemLines, {None}, {None}) /\ [][Next]_vars

\* a header the table renames, a header that spells a new name of the table in
\* small letters, a header the table does not know, and a key that is deleted
\* under pause menu and kept under title info
RenameLines ==
    { SectionLine("Menu Info", "", ""),
      SectionLine("pause menu", "", ""),
      SectionLine("Title Info", "", " ; note"),
      Comment1,
      Malformed,
      Active(<<"menu", "uselocalcoord">>, V1("1")),
      Active(<<"menu", "pos">>, V2("1", "2")) }

SpecRename == InitWith(RenameLines, {None}, {None}) /\ [][Next]_vars

\* [Info] once or more, with and without an active ikemenversion, whose value
\* is bare, in quotes or before an inline comment; the caller says whether it
\* found an active one (raw_version), or says nothing (has_info = None)
InfoLines ==
    { SectionLine("Info", "", ""),
      SectionLine("Title Info", "", ""),
      Comment1,
      Malformed,
      Version("0.9"),
      Active(<<"ikemenversion">>, Quoted("0.9")),
      Active(<<"ikemenversion">>, Val(FALSE, ",", <<Fld(FALSE, "0.9")>>, " ; old")),
      Commented(<<"ikemenversion">>, V1("0.9")) }

SpecInfo == InitWith(InfoLines, {"True", None}, {None, "0.9"}) /\ [][Next]_vars

\* the same base key and the same member key given twice, with two values
AgainLines ==
    { SectionLine("Select Info", "", ""),
      SectionLine("Victory Screen", "", ""),
      Comment1,
      Malformed,
      Active(<<"p1", "offset">>, V2("10", "20")),
      Active(<<"p1", "offset">>, V2("1", "2")),
      Active(<<"p1", "member2", "offset">>, V2("3", "4")),
      Active(<<"p1", "member2", "offset">>, V2("5", "6")),
      Active(<<"p2", "member2", "scale">>, V2("2", "2")),
      Active(<<"p2", "member2", "scale">>, V2("3", "3")) }

SpecAgain == InitWith(AgainLines, {None}, {None}) /\ [][Next]_vars

\* a facing and a speed given for a member, and a facing given for the
\* player the member becomes
MemberFacingLines ==
    { SectionLine("VS Screen", "", ""),
      SectionLine("Victory Screen", "", ""),
      Comment1,
      Malformed,
      Active(<<"p1", "member2", "facing">>, V1("-1")),
      Active(<<"p1", "member2", "slide", "speed">>, V2("5", "2")),
      Active(<<"p2", "member1", "facing">>, V1("-1")),
      Active(<<"p2", "member1", "slide", "speed">>, V2("3", "4")),
      Active(<<"p3", "facing">>, V1("-1")) }

SpecMemberFacing == InitWith(MemberFacingLines, {None}, {None}) /\ [][Next]_vars

\* a member offset and a member scale, and lines that already carry the keys
\* of the player the member becomes
SameKeyLines ==
    { SectionLine("Select Info", "", ""),
      SectionLine("Victory Screen", "", ""),
      Comment1,
      Malformed,
      Active(<<"p1", "member2", "offset">>, V2("1", "1")),
      Active(<<"p3", "offset">>, V2("7", "7")),
      Active(<<"p1", "member2", "scale">>, V2("2", "1")),
      Active(<<"p3", "scale">>, V2("2", "2")) }

SpecSameKey == InitWith(SameKeyLines, {None}, {None}) /\ [][Next]_vars

\* main is started again on the file it has patched in place: a new process,
\* with empty registries, reads what the first one wrote; the backup of the
\* first run is still there
MainAgain ==
    /\ main_pc = "patched"
    /\ ~args_stdout
    /\ written.made
    /\ ini_file' = written.content
    /\ main_pc' = "start"
    /\ pc' = "start"
    /\ has_info' = None
    /\ raw_version' = None
    /\ input' = << >>
    /\ output' = << >>
    /\ current_section' = ""
    /\ info_section_seen' = FALSE
    /\ ikemenversion_written' = FALSE
    /\ seen_keys_by_section' = EmptyRegistry
    /\ section_buffer' = << >>
    /\ SetEngine(EngineState(EmptyRegistry, EmptyRegistry, EmptyRegistry,
                             EmptyRegistry, 0))
    /\ sec_start' = 0
    /\ last' = NoCall
    /\ lastFinal' = NoFinal
    /\ UNCHANGED <<alphabet, args_stdout, backup, written>>

NextRerun ==
    \/ MainSkip
    \/ MainBackup
    \/ MainProcess
    \/ ReadFromFile
    \/ MainReadError
    \/ MainFinish
    \/ MainAgain

\* files with and without [Info], with no version, a version that is no
\* number, versions below and at the target, and an inline comment
RerunLines ==
    { SectionLine("Info", "", ""),
      SectionLine("Title Info", "", ""),
      Blank,
      Version("0.99"),
      Version("1.0"),
      Version("v1"),
      Active(<<"ikemenversion">>, Val(FALSE, ",", <<Fld(FALSE, "0.9")>>, " ; old")),
      Commented(<<"ikemenversion">>, V1("1.0")) }

SpecRerun == InitMain(RerunLines) /\ [][NextRerun]_vars

\* ------------------------------------------------------------------ properties

MaxOf(S) == CHOOSE x \in S : \A y \in S : y <= x
MinOf(S) == CHOOSE x \in S : \A y \in S : x <= y

\* the section that was current when input line i was read
SectionAt(i) ==
    LET heads == {j \in 1..(i - 1) : input[j].shape = "section"}
    IN  IF heads = {} THEN ""
        ELSE SECTION_RENAMES(Lower(input[MaxOf(heads)].name))

\* the positions in a sequence of items of the items made from input line i
MadeFrom(items, i) ==
    {j \in 1..Len(items) : items[j].shape # "anchor" /\ items[j].src = i}

\* input line i has the shape key = value, active or behind a ';', and its key
\* matches a deletion pattern of its section
DeletionLine(i) ==
    /\ input[i].shape = "kv"
    /\ LowerKey(input[i].key) \in keys_to_delete(SectionAt(i))

\* C1: no line is written for a key = value line whose key matches a deletion
\* pattern of its section, whether the line is active or commented out.
C1_DeletedWhateverCommentState ==
    \A i \in 1..Len(input) : DeletionLine(i) => MadeFrom(output, i) = {}

\* a line that is neither a header nor a key = value line
IsVerbatim(item) == item.shape \in {"blank", "comment", "malformed"}

\* the verbatim lines of the input among the items, in their order
VerbatimOf(items) ==
    SelectSeq(items, LAMBDA x : IsVerbatim(x) /\ x.src # 0)

\* C2: the blank, comment and malformed lines of the input are written
\* unchanged, each once, in the order of the input: while reading they are in
\* the output followed by the buffer, at the end they are all in the output.
C2_VerbatimKeptInOrder ==
    /\ pc = "reading" =>
         VerbatimOf(output \o section_buffer) = VerbatimOf(input)
    /\ pc = "done" => VerbatimOf(output) = VerbatimOf(input)

\* a default was appended before trailing comments, and an aggregate resolved
C2_Witness ==
    /\ pc = "done"
    /\ Len(VerbatimOf(input)) >= 2
    /\ \E j, k \in 1..Len(output) :
         /\ j < k
         /\ output[j].shape = "kv" /\ output[j].src = 0
         /\ output[j].key = <<"keymenu", "window", "margins", "y">>
         /\ output[k].shape = "comment" /\ output[k].src # 0
    /\ \E j \in 1..Len(output) :
         output[j].shape = "kv" /\ output[j].key = <<"p3", "offset">>

\* One pass of the read loop and of _finalize_section over the lines that
\* follow the header of a section, in a fresh run: the items written for them.
RECURSIVE feed_section(_, _, _, _, _)
feed_step(r, seen, section, lines, buf) ==
    feed_section(r.st, seen, section, lines, buf \o r.items)

feed_section(st, seen, section, lines, buf) ==
    IF lines = << >>
    THEN finalize_section(st, (section :> seen), section, buf).items
    ELSE IF StartsWithSemicolon(Head(lines)) \/ Head(lines).shape # "kv"
    THEN feed_section(st, seen, section, Tail(lines), Append(buf, Head(lines)))
    ELSE feed_step(handle_input_line(st, section, Head(lines), Head(lines)),
                   seen \cup {LowerKey(Head(lines).key)},
                   section, Tail(lines), buf)

second_pass(section, lines) ==
    feed_section(EngineState(EmptyRegistry, EmptyRegistry, EmptyRegistry,
                             EmptyRegistry, 0),
                 {}, section, lines, << >>)

\* C3: the lines written for a section, fed again through the engine under the
\* same header, come out as they went in.
C3_SecondPassChangesNothing ==
    (lastFinal.called /\ lastFinal.sec # "") =>
        StripAll(second_pass(lastFinal.sec, StripAll(lastFinal.out)))
          = StripAll(lastFinal.out)

\* the active lines of a finalized section f whose lower-cased key is k
ActiveIn(f, k) ==
    {i \in f.first..f.last :
        input[i].shape = "kv" /\ ~input[i].semi /\ LowerKey(input[i].key) = k}

Kinds == {"plain", "face", "face2"}

KindPath(kind) == IF kind = "plain" THEN << >> ELSE <<kind>>

BaseKeyOf(b, kind, attr) == <<"p" \o ToString(b)>> \o KindPath(kind) \o <<attr>>

MemberKeyOf(b, m, kind, attr) ==
    <<"p" \o ToString(b), "member" \o ToString(m)>> \o KindPath(kind) \o <<attr>>

\* player 1: 1, 3, 5, 7; player 2: 2, 4, 6, 8
TargetPlayer(b, m) == << <<1, 3, 5, 7>>, <<2, 4, 6, 8>> >>[b][m]

TargetKeyOf(b, m, kind, attr) ==
    <<"p" \o ToString(TargetPlayer(b, m))>> \o KindPath(kind) \o <<attr>>

DoneKeyOf(b, m, kind, attr) ==
    <<"p" \o ToString(TargetPlayer(b, m))>> \o KindPath(kind) \o <<"done", attr>>

\* the pair held by the last of the lines S, the default when there is none
LastPair(S, dflt) ==
    IF S = {} THEN <<dflt, dflt>> ELSE ParsePair(input[MaxOf(S)].val, dflt)

\* the positions in items of the generated active lines with the key
Generated(items, key) ==
    {j \in 1..Len(items) :
        /\ items[j].shape = "kv" /\ items[j].src = 0
        /\ ~items[j].semi /\ items[j].key = key}

FinalizedRoster ==
    lastFinal.called /\ lastFinal.sec \in {"select info", "vs screen", "victory screen"}

\* the lines of a finalized section that feed the offset slot (b, kind)
OffsetContributors(f, b, kind) ==
    ActiveIn(f, BaseKeyOf(b, kind, "offset"))
      \cup UNION {ActiveIn(f, MemberKeyOf(b, m, kind, "offset")) : m \in 1..4}

\* the positions in items of the lines generated for the offset slot (b, kind)
OffsetGenerated(items, b, kind) ==
    UNION {Generated(items, TargetKeyOf(b, m, kind, "offset"))
             \cup Generated(items, DoneKeyOf(b, m, kind, "offset")) : m \in 1..4}

\* the generated lines at the positions gen stand where input line first
\* stood: that line is gone, and a line made from another input line stands
\* after them exactly when it came after first
PlacedAt(out, gen, first) ==
    /\ gen # {}
    /\ MadeFrom(out, first) = {}
    /\ \A t \in 1..Len(out) :
         out[t].src # 0 =>
           IF first < out[t].src THEN \A j \in gen : j < t
           ELSE \A j \in gen : t < j

\* C4: in a roster section the lines generated for an offset slot stand where
\* the slot's first contributing line stood: before every other line that
\* came after it and after every other line that came before it; the
\* contributing lines themselves are gone and the other lines keep their order.
C4_GeneratedAtFirstContributor ==
    FinalizedRoster =>
      /\ \A b \in {1, 2}, kind \in Kinds :
           OffsetContributors(lastFinal, b, kind) # {} =>
             PlacedAt(lastFinal.out, OffsetGenerated(lastFinal.out, b, kind),
                      MinOf(OffsetContributors(lastFinal, b, kind)))
      /\ \A t \in 2..Len(lastFinal.out) :
           (lastFinal.out[t - 1].src # 0 /\ lastFinal.out[t].src # 0) =>
              lastFinal.out[t - 1].src <= lastFinal.out[t].src

\* p1.offset, a comment, p1.member2.offset: the four generated lines precede
\* the comment
C4_Witness ==
    /\ FinalizedRoster
    /\ lastFinal.sec = "select info"
    /\ \E i, c, k \in lastFinal.first..lastFinal.last :
         /\ i < c /\ c < k
         /\ i \in OffsetContributors(lastFinal, 1, "plain")
         /\ \A x \in OffsetContributors(lastFinal, 1, "plain") : i <= x
         /\ input[c].shape = "comment"
         /\ k \in ActiveIn(lastFinal, <<"p1", "member2", "offset">>)
         /\ \E t \in MadeFrom(lastFinal.out, c) :
              \A j \in OffsetGenerated(lastFinal.out, 1, "plain") : j < t
    /\ Generated(lastFinal.out, <<"p3", "done", "offset">>) # {}

\* C5: for every member override of an offset slot the flushed lines hold
\* one generated offset line of the target player, and its value is the sum,
\* component by component, of the base (0, 0 when there is none) and the
\* override.
C5_OffsetIsBasePlusOverride ==
    FinalizedRoster =>
      \A b \in {1, 2}, kind \in Kinds, m \in 1..4 :
        ActiveIn(lastFinal, MemberKeyOf(b, m, kind, "offset")) # {} =>
          /\ Generated(lastFinal.out, TargetKeyOf(b, m, kind, "offset")) # {}
          /\ \A j \in Generated(lastFinal.out, TargetKeyOf(b, m, kind, "offset")) :
               lastFinal.out[j].val =
                 V2(ToString(LastPair(ActiveIn(lastFinal, BaseKeyOf(b, kind, "offset")), 0)[1]
                      + LastPair(ActiveIn(lastFinal, MemberKeyOf(b, m, kind, "offset")), 0)[1]),
                    ToString(LastPair(ActiveIn(lastFinal, BaseKeyOf(b, kind, "offset")), 0)[2]
                      + LastPair(ActiveIn(lastFinal, MemberKeyOf(b, m, kind, "offset")), 0)[2]))
          /\ Cardinality(Generated(lastFinal.out, TargetKeyOf(b, m, kind, "offset"))) = 1

\* p1.offset = 10,20 and p1.member2.offset = 1,1 gave p3.offset = 11, 21
C5_Witness ==
    /\ FinalizedRoster
    /\ \E i \in ActiveIn(lastFinal, <<"p1", "offset">>) :
         input[i].val = Tight("10", "20")
    /\ \E i \in ActiveIn(lastFinal, <<"p1", "member2", "offset">>) :
         input[i].val = Tight("1", "1")
    /\ \E j \in Generated(lastFinal.out, <<"p3", "offset">>) :
         lastFinal.out[j].val = V2("11", "21")

\* C6: in select info and vs screen every generated offset or scale line is
\* followed at once by its .done. twin with the same player, kind and value;
\* in victory screen no .done. line is generated.
C6_DoneTwinOnlyWhereDoneState ==
    FinalizedRoster =>
      \A attr \in {"offset", "scale"}, b \in {1, 2}, kind \in Kinds, m \in 1..4 :
        IF lastFinal.sec \in {"select info", "vs screen"}
        THEN \A j \in Generated(lastFinal.out, TargetKeyOf(b, m, kind, attr)) :
               /\ j + 1 \in Generated(lastFinal.out, DoneKeyOf(b, m, kind, attr))
               /\ lastFinal.out[j + 1].val = lastFinal.out[j].val
        ELSE Generated(lastFinal.out, DoneKeyOf(b, m, kind, attr)) = {}

\* a select info section wrote a scale line with its twin, then a victory
\* screen section wrote a scale line alone
C6_Witness ==
    /\ FinalizedRoster
    /\ lastFinal.sec = "victory screen"
    /\ \E b \in {1, 2}, kind \in Kinds, m \in 1..4 :
         Generated(lastFinal.out, TargetKeyOf(b, m, kind, "scale")) # {}
    /\ \E j \in 1..(Len(output) - 1) :
         /\ j \in Generated(output, <<"p3", "scale">>)
         /\ j + 1 \in Generated(output, <<"p3", "done", "scale">>)

\* C7: for every member override of a scale slot the flushed lines hold one
\* generated scale line of the target player (1, 3, 5, 7 or 2, 4, 6, 8), and
\* its value is the product, component by component, of the base and the
\* override, 1, 1 standing for a missing base; a base without an override of
\* member 1 gives the base player the base times 1, 1.
C7_ScaleIsBaseTimesOverride ==
    FinalizedRoster =>
      \A b \in {1, 2}, kind \in Kinds :
        /\ \A m \in 1..4 :
             ActiveIn(lastFinal, MemberKeyOf(b, m, kind, "scale")) # {} =>
               /\ Cardinality(Generated(lastFinal.out,
                                        TargetKeyOf(b, m, kind, "scale"))) = 1
               /\ \A j \in Generated(lastFinal.out, TargetKeyOf(b, m, kind, "scale")) :
                    lastFinal.out[j].val =
                      V2(ToString(LastPair(ActiveIn(lastFinal, BaseKeyOf(b, kind, "scale")), 1)[1]
                           * LastPair(ActiveIn(lastFinal, MemberKeyOf(b, m, kind, "scale")), 1)[1]),
                         ToString(LastPair(ActiveIn(lastFinal, BaseKeyOf(b, kind, "scale")), 1)[2]
                           * LastPair(ActiveIn(lastFinal, MemberKeyOf(b, m, kind, "scale")), 1)[2]))
        /\ (/\ ActiveIn(lastFinal, BaseKeyOf(b, kind, "scale")) # {}
            /\ ActiveIn(lastFinal, MemberKeyOf(b, 1, kind, "scale")) = {}) =>
             /\ Generated(lastFinal.out, TargetKeyOf(b, 1, kind, "scale")) # {}
             /\ \A j \in Generated(lastFinal.out, TargetKeyOf(b, 1, kind, "scale")) :
                  lastFinal.out[j].val =
                    V2(ToString(LastPair(ActiveIn(lastFinal, BaseKeyOf(b, kind, "scale")), 1)[1]),
                       ToString(LastPair(ActiveIn(lastFinal, BaseKeyOf(b, kind, "scale")), 1)[2]))

\* p1.scale = 2, 3 and p1.member2.scale = 2,2 gave p3.scale = 4, 6
C7_Witness ==
    /\ FinalizedRoster
    /\ ActiveIn(lastFinal, <<"p1", "scale">>) # {}
    /\ \E i \in ActiveIn(lastFinal, <<"p1", "member2", "scale">>) :
         /\ i = lastFinal.last
         /\ input[i].val = Tight("2", "2")
    /\ \E j \in Generated(lastFinal.out, <<"p3", "scale">>) :
         lastFinal.out[j].val = V2("4", "6")

\* the positions in items of the active or commented lines with the key,
\* whatever its case
Keyed(items, k) ==
    {j \in 1..Len(items) : items[j].shape = "kv" /\ LowerKey(items[j].key) = k}

\* C8: in vs screen and victory screen, when a section holds active lines
\* pN.slide.speed and pN.facing, in either order, its flushed lines hold one
\* line pN.velocity, with the value vx * f, vy of the last speed and the last
\* facing, and no pN.slide.speed line.
C8_VelocityIsSpeedTimesFacing ==
    (lastFinal.called /\ lastFinal.sec \in {"vs screen", "victory screen"}) =>
      \A n \in 1..MaxPlayer :
        (/\ ActiveIn(lastFinal, <<PSeg(n), "slide", "speed">>) # {}
         /\ ActiveIn(lastFinal, <<PSeg(n), "facing">>) # {}) =>
          /\ Cardinality(Keyed(lastFinal.out, <<PSeg(n), "velocity">>)) = 1
          /\ \A j \in Keyed(lastFinal.out, <<PSeg(n), "velocity">>) :
               /\ ~lastFinal.out[j].semi
               /\ lastFinal.out[j].val =
                    V2(ToString(
                         LastPair(ActiveIn(lastFinal, <<PSeg(n), "slide", "speed">>), 0)[1]
                           * LastPair(ActiveIn(lastFinal, <<PSeg(n), "facing">>), 1)[1]),
                       ToString(
                         LastPair(ActiveIn(lastFinal, <<PSeg(n), "slide", "speed">>), 0)[2]))
          /\ Keyed(lastFinal.out, <<PSeg(n), "slide", "speed">>) = {}

\* the facing -1 came after the speed 5, 0 and the section wrote
\* p1.velocity = -5, 0
C8_Witness ==
    /\ lastFinal.called
    /\ lastFinal.sec = "vs screen"
    /\ \E i \in ActiveIn(lastFinal, <<"p1", "slide", "speed">>) :
         \E k \in ActiveIn(lastFinal, <<"p1", "facing">>) :
            i < k /\ input[i].val = V2("5", "0") /\ input[k].val = V1("-1")
    /\ \E j \in Keyed(lastFinal.out, <<"p1", "velocity">>) :
         lastFinal.out[j].val = V2("-5", "0")

\* the keys that have both a value rewrite and a rename in their section
BothRules(section, k) ==
    \/ section = "victory screen" /\ k = <<"winquote", "spacing">>
    \/ section = "dialogue info" /\ k \in {<<"p1", "text", "spacing">>,
                                           <<"p2", "text", "spacing">>}
    \/ section = "hiscore info" /\ Len(k) >= 3 /\ k[1] = "item" /\ k[2] = "data"
         /\ k[3] # "time" /\ k[Len(k)] = "text"

\* the key the rename gives
RenamedKey(section, k) ==
    CASE section = "victory screen" -> <<"winquote", "textspacing">>
      [] section = "dialogue info" -> <<k[1], "text", "textspacing">>
      [] section = "hiscore info" -> <<"item", "result">> \o SubSeq(k, 3, Len(k))

\* the value the rewrite gives: what follows the comma of a text with one
\* comma; %d for %s
RewrittenValue(section, v) ==
    IF section = "hiscore info"
    THEN [v EXCEPT !.f = [i \in 1..Len(v.f) |->
             IF v.f[i].s = "%s" THEN [v.f[i] EXCEPT !.s = "%d"] ELSE v.f[i]]]
    ELSE IF v.sep = "," /\ Len(v.f) = 2 THEN [v EXCEPT !.f = <<v.f[2]>>]
    ELSE v

\* C9: a key with both a value rewrite and a rename is written under the new
\* key with the rewritten value, never with the original one.
C9_RenamedLineCarriesRewrittenValue ==
    (/\ last.called
     /\ ~last.line.semi
     /\ BothRules(last.section, LowerKey(last.line.key))) =>
       /\ Len(last.items) = 1
       /\ \A j \in 1..Len(last.items) :
            /\ last.items[j].shape = "kv"
            /\ last.items[j].key = RenamedKey(last.section, LowerKey(last.line.key))
            /\ last.items[j].val = RewrittenValue(last.section, last.line.val)
            /\ (last.line.val.f # RewrittenValue(last.section, last.line.val).f) =>
                  last.items[j].val # last.line.val

\* winquote.spacing = 3,4 of victory screen was written as
\* winquote.textspacing = 4
C9_Witness ==
    /\ last.called
    /\ last.section = "victory screen"
    /\ last.line.key = <<"winquote", "spacing">>
    /\ last.line.val = Tight("3", "4")
    /\ Len(last.items) = 1
    /\ last.items[1].key = <<"winquote", "textspacing">>
    /\ last.items[1].val = V1("4")

\* the positions of the .member<1-4> segments of a lower-cased key
MemberSegments(k) == {i \in 2..Len(k) : MemberIdx(k[i]) >= 1}

\* the last call of handle_line was for an active line with a key
\* p<b>....member<m>.... that is not an offset or scale of a roster section
MemberLineHandled ==
    /\ last.called
    /\ ~last.line.semi
    /\ LowerKey(last.line.key)[1] \in {"p1", "p2"}
    /\ MemberSegments(LowerKey(last.line.key)) # {}
    /\ ~(/\ last.section \in {"select info", "vs screen", "victory screen"}
         /\ \/ agg_shape(last.line.key, "offset").ok
            \/ agg_shape(last.line.key, "scale").ok)

\* the key without its first member segment, under the target player
ExpectedRemap(k) ==
    <<"p" \o ToString(TargetPlayer(IF k[1] = "p1" THEN 1 ELSE 2,
                                   MemberIdx(k[MinOf(MemberSegments(k))])))>>
      \o SubSeq(k, 2, MinOf(MemberSegments(k)) - 1)
      \o SubSeq(k, MinOf(MemberSegments(k)) + 1, Len(k))

\* a stage after the member remap matches the remapped key rk
LaterStageMatches(section, rk, v) ==
    \/ EndsWithDotKey(rk)
    \/ remap_boxcursor_alpharange(rk).did
    \/ section \in MenuSections /\ IsItemnameEmpty(rk) /\ IsEmptyText(v)
    \/ section = "hiscore info" /\ rk = <<"title", "text">>
    \/ section \in {"select info", "vs screen", "victory screen"}
         /\ Len(rk) >= 3 /\ velocity_kind(section, rk) # None
    \/ apply_key_transformations(section, rk, v, "") # << >>

\* C10 as stated: the line is written once, under the remapped key, with its
\* value.
C10_RemappedToOneLine ==
    MemberLineHandled =>
      /\ Len(last.items) = 1
      /\ last.items[1].shape = "kv"
      /\ last.items[1].key = ExpectedRemap(LowerKey(last.line.key))
      /\ last.items[1].val = last.line.val

\* C10, amended: the member segment is removed and the player replaced before
\* the later stages run.  With no later stage matching the remapped key the
\* line is written once, under that key, with its value; in vs screen a
\* remapped pN.icon.<attr> is written twice, as pN.icon.<attr> and
\* pN.icon.done.<attr>, with its value; in vs screen and victory screen a
\* remapped pN.slide.speed is captured and no line is written for it yet.
C10_RemappedBeforeLaterStages ==
    MemberLineHandled =>
      IF ~LaterStageMatches(last.section, ExpectedRemap(LowerKey(last.line.key)),
                            last.line.val)
      THEN /\ Len(last.items) = 1
           /\ last.items[1].shape = "kv"
           /\ last.items[1].key = ExpectedRemap(LowerKey(last.line.key))
           /\ last.items[1].val = last.line.val
      ELSE IF /\ last.section = "vs screen"
              /\ Len(last.line.key) = 4
              /\ SubSeq(ExpectedRemap(LowerKey(last.line.key)), 2, 2) = <<"icon">>
              /\ LowerKey(last.line.key)[4] \in IconAttrs
      THEN /\ Len(last.items) = 2
           /\ last.items[1].key = ExpectedRemap(LowerKey(last.line.key))
           /\ last.items[2].key =
                <<ExpectedRemap(LowerKey(last.line.key))[1], "icon", "done",
                  LowerKey(last.line.key)[4]>>
           /\ last.items[1].val = last.line.val
           /\ last.items[2].val = last.line.val
      ELSE IF /\ last.section \in {"vs screen", "victory screen"}
              /\ SubSeq(ExpectedRemap(LowerKey(last.line.key)), 2, 3)
                   = <<"slide", "speed">>
      THEN \A j \in 1..Len(last.items) : last.items[j].shape = "anchor"
      ELSE TRUE

\* p1.member3.icon.offset = 0, 0 of vs screen was written as p5.icon.offset
\* and p5.icon.done.offset
C10_Witness ==
    /\ last.called
    /\ last.section = "vs screen"
    /\ last.line.key = <<"p1", "member3", "icon", "offset">>
    /\ Len(last.items) = 2
    /\ last.items[1].key = <<"p5", "icon", "offset">>
    /\ last.items[2].key = <<"p5", "icon", "done", "offset">>
    /\ last.items[2].val = V2("0", "0")

\* the last call of handle_line was for an active line with a key ending in
\* .key, and it wrote something
KeyListHandled ==
    /\ last.called
    /\ ~last.line.semi
    /\ Len(last.line.key) >= 2
    /\ Lower(last.line.key[Len(last.line.key)]) = "key"
    /\ last.items # << >>

\* the fields of a value that are not empty, in their order
RECURSIVE NonEmptyFields(_)
NonEmptyFields(f) ==
    IF f = << >> THEN << >>
    ELSE IF Head(f).s = "" THEN NonEmptyFields(Tail(f))
    ELSE <<Head(f).s>> \o NonEmptyFields(Tail(f))

\* the texts joined with ", "; the empty text when there is none
JoinedWithCommaBlank(texts) ==
    IF texts = << >> THEN <<Fld(FALSE, "")>>
    ELSE [i \in 1..Len(texts) |-> Fld(i > 1, texts[i])]

\* the value written with '&': its parts, trimmed, without the empty ones,
\* joined with ", "; a value without '&' is one part
SplitAndRejoined(v) ==
    IF v.sep = "&"
    THEN Val(FALSE, ",", JoinedWithCommaBlank(NonEmptyFields(v.f)), v.ic)
    ELSE [v EXCEPT !.q = FALSE, !.f[1].lead = FALSE]

\* C11 as stated: the value written for an active key ending in .key is the
\* input value split on '&', the parts trimmed, the empty ones dropped, the
\* rest joined with ", ".
C11_KeyListSplitAndRejoined ==
    KeyListHandled =>
      \A j \in 1..Len(last.items) :
        /\ last.items[j].shape = "kv"
        /\ last.items[j].val = SplitAndRejoined(last.line.val)

\* the value holds nothing but '&' and blanks
OnlyAmpersands(v) ==
    v.sep = "&" /\ Len(v.f) > 1 /\ \A i \in 1..Len(v.f) : v.f[i].s = ""

\* the text of such a value without the blanks around it
AmpersandsTrimmed(v) ==
    Val(FALSE, "&", [i \in 1..Len(v.f) |-> Fld(FALSE, "")], v.ic)

\* C11, amended: the value written for an active key ending in .key, in any
\* section and under the key a rename gives, is the input value without its
\* quotes, split on '&', the parts trimmed, the empty ones dropped, the rest
\* joined with ", ", followed by the inline comment; a value of nothing but
\* '&' and blanks is written as it is, trimmed.
C11_KeyListNormalized ==
    KeyListHandled =>
      \A j \in 1..Len(last.items) :
        /\ last.items[j].shape = "kv"
        /\ ~last.items[j].semi
        /\ last.items[j].val =
             IF OnlyAmpersands(last.line.val)
             THEN AmpersandsTrimmed(last.line.val)
             ELSE SplitAndRejoined(last.line.val)

\* menu.accept.key = a&& b ; note of title info was written as
\* menu.done.key = a, b ; note
C11_Witness ==
    /\ last.called
    /\ last.section = "title info"
    /\ last.line.key = <<"menu", "accept", "key">>
    /\ last.line.val.sep = "&"
    /\ Len(last.line.val.f) = 3
    /\ Len(last.items) = 1
    /\ last.items[1].key = <<"menu", "done", "key">>
    /\ last.items[1].val = Val(FALSE, ",", <<Fld(FALSE, "a"), Fld(TRUE, "b")>>, " ; note")

\* the section of the last _finalize_section has just been closed: nothing
\* was read since but the header that closed it
JustFinalized ==
    /\ lastFinal.called
    /\ lastFinal.last = (IF pc = "done" THEN Len(input) ELSE Len(input) - 1)

\* the entries of the four registries for a section
EntriesFor(sec) ==
    SlotsOf(member_offset_params, sec) \cup SlotsOf(member_scale_params, sec)
      \cup SlotsOf(velocity_params, sec) \cup SlotsOf(facing_params, sec)

AllEntries ==
    (DOMAIN member_offset_params) \cup (DOMAIN member_scale_params)
      \cup (DOMAIN velocity_params) \cup (DOMAIN facing_params)

\* the lines a fresh run writes for the lines of the last finalized section
WrittenAfresh(f) ==
    second_pass(f.sec, StripAll(SubSeq(input, f.first, f.last)))

\* C12: right after a section is finalized the offset, scale and velocity
\* registries and the facing records hold no entry for it; they never hold an
\* entry for a section other than the open one; and the lines written for a
\* roster section are those a run with empty registries writes for its lines,
\* whatever an earlier section of the same name held.
C12_NoLeakAcrossSections ==
    /\ JustFinalized => EntriesFor(lastFinal.sec) = {}
    /\ \A k \in AllEntries : pc = "reading" /\ k[1] = current_section
    /\ FinalizedRoster => StripAll(lastFinal.out) = StripAll(WrittenAfresh(lastFinal))

\* [VS Screen], p1.facing = -1, [VS Screen], p1.slide.speed = 5, 0: the second
\* section wrote p1.velocity = 5, 0
C12_Witness ==
    /\ pc = "done"
    /\ Len(input) = 4
    /\ input[1].shape = "section" /\ input[1].name = "VS Screen"
    /\ input[2].shape = "kv" /\ input[2].key = <<"p1", "facing">>
    /\ input[3].shape = "section" /\ input[3].name = "VS Screen"
    /\ input[4].shape = "kv" /\ input[4].key = <<"p1", "slide", "speed">>
    /\ JustFinalized
    /\ \E j \in Generated(lastFinal.out, <<"p1", "velocity">>) :
         lastFinal.out[j].val = V2("5", "0")

\* the keys read so far as active lines under a section name
SeenUnder(sec, upto) ==
    {LowerKey(input[i].key) : i \in {j \in 1..upto :
        input[j].shape = "kv" /\ ~input[j].semi /\ SectionAt(j) = sec}}

\* the defaults of option info, in the order of the table
OptionDefaults ==
    << Active(<<"keymenu", "pos">>, V2("0", "0")),
       Active(<<"keymenu", "window", "margins", "y">>, V2("0", "0")),
       Active(<<"keymenu", "window", "visibleitems">>, V1("0")) >>

BlankOrComment(item) ==
    \/ item.shape \in {"blank", "comment"}
    \/ item.shape = "kv" /\ item.semi

\* the length of the run of blank and comment items that ends a buffer
TrailingRun(buf) ==
    MaxOf({t \in 0..Len(buf) :
             \A i \in (Len(buf) - t + 1)..Len(buf) : BlankOrComment(buf[i])})

OptionInfoClosed == lastFinal.called /\ lastFinal.sec = "option info"

ReadsCommentedKeyValue ==
    /\ Len(input') = Len(input) + 1
    /\ input'[Len(input')].shape = "kv"
    /\ input'[Len(input')].semi

\* the step adds the line to the buffer as it is and changes nothing else
OnlyBuffered ==
    /\ section_buffer' = Append(section_buffer, input'[Len(input')])
    /\ UNCHANGED <<seen_keys_by_section, member_offset_params, member_scale_params,
                   facing_params, velocity_params, anchor_counter, output,
                   current_section, info_section_seen, ikemenversion_written>>

\* the commented key = value lines read so far
CommentedKeyValues == {i \in 1..Len(input) : input[i].shape = "kv" /\ input[i].semi}

\* every item made from a commented line is that line, still commented
CommentedStayComments ==
    \A i \in CommentedKeyValues :
      \A j \in MadeFrom(output \o section_buffer, i) :
        (output \o section_buffer)[j] = input[i]

\* a default of option info that is only given commented out is still written
CommentedDoesNotSuppress ==
    OptionInfoClosed =>
      \A d \in 1..Len(OptionDefaults) :
        LowerKey(OptionDefaults[d].key) \notin SeenUnder("option info", lastFinal.last)
          => Generated(lastFinal.out, OptionDefaults[d].key) # {}

\* C14: reading a key = value line that is commented out with a leading ';'
\* adds the line to the section buffer as it is and leaves the seen keys, the
\* four registries, the anchor counter and the output as they were; the line
\* is written commented, and a default it names is still appended.
C14_CommentedLineChangesNothing ==
    /\ [][ReadsCommentedKeyValue => OnlyBuffered]_vars
    /\ [](CommentedStayComments /\ CommentedDoesNotSuppress)

\* [Select Info] with the commented p1.member2.offset alone: the line is
\* written as it is and no offset line is generated; and an option info
\* section with the commented keymenu.window.visibleitems got the default
C14_Witness ==
    /\ pc = "done"
    /\ \E i \in CommentedKeyValues :
         /\ input[i].key = <<"p1", "member2", "offset">>
         /\ SectionAt(i) = "select info"
         /\ MadeFrom(output, i) # {}
    /\ \A j \in 1..Len(output) :
         output[j].shape = "kv" => output[j].key # <<"p3", "offset">>
    /\ \E i \in CommentedKeyValues :
         /\ input[i].key = <<"keymenu", "window", "visibleitems">>
         /\ SectionAt(i) = "option info"
    /\ \E j \in 1..Len(output) :
         /\ output[j].shape = "kv" /\ output[j].src = 0 /\ ~output[j].semi
         /\ output[j].key = <<"keymenu", "window", "visibleitems">>

\* the positions of the [Info] headers among the items
InfoHeaders(items) ==
    {j \in 1..Len(items) : items[j].shape = "section" /\ Lower(items[j].name) = "info"}

\* C15: with has_info = False the output starts with the [Info] header and the
\* line ikemenversion = 1.0, every line made from the input comes after them,
\* and the output holds no other [Info] header, at the end of the file too.
C15_SeedLinesFirstAndOnce ==
    has_info = "False" =>
      /\ Len(output) >= 2
      /\ output[1].shape = "section" /\ output[1].name = "Info"
      /\ output[1].pre = "" /\ output[1].suf = ""
      /\ output[2].shape = "kv" /\ ~output[2].semi
      /\ output[2].key = <<"ikemenversion">> /\ output[2].val = V1("1.0")
      /\ \A j \in 1..Len(output) : output[j].src # 0 => j > 2
      /\ InfoHeaders(output) = {1}

\* a file of two sections was written after the seed lines, and the output
\* ends with a line of the file
C15_Witness ==
    /\ has_info = "False"
    /\ pc = "done"
    /\ Cardinality({i \in 1..Len(input) : input[i].shape = "section"}) = 2
    /\ output[Len(output)].src = Len(input)
    /\ MadeFrom(output, 1) # {}

\* the number a text spells, the given identity when it spells none
NumberOr(s, identity) ==
    IF \E n \in (0 - NumRange)..NumRange : ToString(n) = s
    THEN CHOOSE n \in (0 - NumRange)..NumRange : ToString(n) = s
    ELSE identity

\* component i of a value written with commas, the identity when it is
\* missing or not a number
Component(v, i, identity) ==
    IF i <= Len(v.f) THEN NumberOr(v.f[i].s, identity) ELSE identity

\* the pair of the last of the lines S, the identity pair when S is empty
PairOrIdentity(S, identity) ==
    IF S = {} THEN <<identity, identity>>
    ELSE <<Component(input[MaxOf(S)].val, 1, identity),
           Component(input[MaxOf(S)].val, 2, identity)>>

\* a value of the line has a component that is missing or not a number
HasBadComponent(v) ==
    \E i \in {1, 2} : i > Len(v.f) \/ NumberOr(v.f[i].s, 0) # NumberOr(v.f[i].s, 1)

\* the last call of handle_line was for an offset, scale or slide.speed line
\* of a roster section
AggregatedLineHandled ==
    /\ last.called
    /\ last.section \in {"select info", "vs screen", "victory screen"}
    /\ LowerKey(last.line.key)[Len(last.line.key)] \in {"offset", "scale", "speed"}

\* exactly one line was generated under the key, and its value is the pair
OneLineWith(out, key, pair) ==
    /\ Cardinality(Generated(out, key)) = 1
    /\ \A j \in Generated(out, key) :
         out[j].val = V2(ToString(pair[1]), ToString(pair[2]))

Plus(a, b) == <<a[1] + b[1], a[2] + b[2]>>
Times(a, b) == <<a[1] * b[1], a[2] * b[2]>>

\* C16: an offset, scale or slide.speed line of a roster section is recorded
\* whatever its value holds (nothing but the anchor is put in the buffer),
\* and at flush a component that was missing or not a number counts as 0 for
\* an offset, 1 for a scale and 0 for a speed: the member's line holds base
\* plus override, base times override, and the velocity line holds the speed.
C16_BadComponentTakesIdentity ==
    /\ AggregatedLineHandled =>
         \A j \in 1..Len(last.items) : last.items[j].shape = "anchor"
    /\ FinalizedRoster =>
         \A b \in {1, 2} :
           /\ \A m \in 1..4 :
                /\ ActiveIn(lastFinal, MemberKeyOf(b, m, "plain", "offset")) # {} =>
                     OneLineWith(lastFinal.out, TargetKeyOf(b, m, "plain", "offset"),
                         Plus(PairOrIdentity(ActiveIn(lastFinal, BaseKeyOf(b, "plain", "offset")), 0),
                              PairOrIdentity(ActiveIn(lastFinal, MemberKeyOf(b, m, "plain", "offset")), 0)))
                /\ ActiveIn(lastFinal, MemberKeyOf(b, m, "plain", "scale")) # {} =>
                     OneLineWith(lastFinal.out, TargetKeyOf(b, m, "plain", "scale"),
                         Times(PairOrIdentity(ActiveIn(lastFinal, BaseKeyOf(b, "plain", "scale")), 1),
                               PairOrIdentity(ActiveIn(lastFinal, MemberKeyOf(b, m, "plain", "scale")), 1)))
           /\ ActiveIn(lastFinal, BaseKeyOf(b, "plain", "offset")) # {} =>
                OneLineWith(lastFinal.out, TargetKeyOf(b, 1, "plain", "offset"),
                    Plus(PairOrIdentity(ActiveIn(lastFinal, BaseKeyOf(b, "plain", "offset")), 0),
                         PairOrIdentity(ActiveIn(lastFinal, MemberKeyOf(b, 1, "plain", "offset")), 0)))
           /\ ActiveIn(lastFinal, BaseKeyOf(b, "plain", "scale")) # {} =>
                OneLineWith(lastFinal.out, TargetKeyOf(b, 1, "plain", "scale"),
                    Times(PairOrIdentity(ActiveIn(lastFinal, BaseKeyOf(b, "plain", "scale")), 1),
                          PairOrIdentity(ActiveIn(lastFinal, MemberKeyOf(b, 1, "plain", "scale")), 1)))
           /\ ActiveIn(lastFinal, <<PSeg(b), "face2", "slide", "speed">>) # {} =>
                OneLineWith(lastFinal.out, <<PSeg(b), "face2", "velocity">>,
                    PairOrIdentity(ActiveIn(lastFinal, <<PSeg(b), "face2", "slide", "speed">>), 0))

\* p1.offset = x, 5 and p1.member2.offset = 3 gave p3.offset = 3, 5, and
\* p2.face2.slide.speed = 4, fast gave p2.face2.velocity = 4, 0
C16_Witness ==
    /\ FinalizedRoster
    /\ \E i \in ActiveIn(lastFinal, <<"p1", "offset">>) : HasBadComponent(input[i].val)
    /\ \E i \in ActiveIn(lastFinal, <<"p1", "member2", "offset">>) :
         HasBadComponent(input[i].val)
    /\ \E i \in ActiveIn(lastFinal, <<"p2", "face2", "slide", "speed">>) :
         HasBadComponent(input[i].val)
    /\ \E j \in Generated(lastFinal.out, <<"p3", "offset">>) :
         lastFinal.out[j].val = V2("3", "5")
    /\ \E j \in Generated(lastFinal.out, <<"p2", "face2", "velocity">>) :
         lastFinal.out[j].val = V2("4", "0")

\* the positions of the [Info] headers of the file
FileInfoHeaders ==
    {i \in 1..Len(ini_file) :
        ini_file[i].shape = "section" /\ Lower(ini_file[i].name) = "info"}

\* the header above line i of the file is an [Info] header
UnderInfo(i) ==
    \E h \in FileInfoHeaders :
      h < i /\ \A j \in (h + 1)..(i - 1) : ini_file[j].shape # "section"

\* the active ikemenversion lines of the [Info] sections of the file
FileVersions ==
    {i \in 1..Len(ini_file) :
        /\ ini_file[i].shape = "kv" /\ ~ini_file[i].semi
        /\ ini_file[i].key = <<"ikemenversion">>
        /\ UnderInfo(i)}

\* the text of the first of them
FileVersionText == ini_file[MinOf(FileVersions)].val.f[1].s

\* what the claim lists: no [Info], no active ikemenversion in [Info], a
\* version that is no number, a version below 1.0
PatchCalledFor ==
    \/ FileInfoHeaders = {}
    \/ FileVersions = {}
    \/ FileVersionText = "v1"
    \/ FileVersionText = "0.99"

\* C17: main patches the file (makes the backup, runs process_ini, writes the
\* file or prints the patched lines) exactly when the file has no [Info]
\* section, no active ikemenversion in [Info], an ikemenversion that is no
\* number, or one below 1.0; otherwise nothing is written to the file, no
\* backup is made, and the lines of the file are printed unchanged with
\* --stdout and nothing is printed without it.
C17_PatchedOnlyBelowTarget ==
    /\ main_pc = "skipped" => ~PatchCalledFor
    /\ main_pc \in {"backed up", "patching", "raised", "patched"} => PatchCalledFor
    /\ main_pc = "skipped" =>
         /\ written = NotMade
         /\ backup = NotMade
         /\ output = IF args_stdout THEN ini_file ELSE << >>
    /\ main_pc = "patched" => (written.made <=> ~args_stdout)
    /\ backup.made => ~args_stdout /\ backup.content = ini_file

\* [Info], a commented ikemenversion, ikemenversion = 1.10.2: with --stdout
\* the three lines were printed and nothing else was done
C17_Witness ==
    /\ main_pc = "skipped"
    /\ args_stdout
    /\ Len(ini_file) = 3
    /\ FileVersions = {3}
    /\ ini_file[2].shape = "kv" /\ ini_file[2].semi
    /\ FileVersionText = "1.10.2"
    /\ output = ini_file

\* C18: when reading the file fails while process_ini runs for a patch in
\* place, main ends with the error and does nothing more: the file is not
\* written.  The file is only ever written after process_ini has read all of
\* it, with the whole output.
C18_ReadErrorLeavesFile ==
    /\ [](main_pc = "raised" => pc = "raised" /\ written = NotMade)
    /\ [](written.made =>
            /\ ~args_stdout
            /\ pc = "done"
            /\ StripAll(input) = ini_file
            /\ written.content = StripAll(output))
    /\ [][main_pc = "raised" => UNCHANGED vars]_vars

\* in place, after the backup, the read failed at the third line of a file
\* with two lines already in the buffer or the output
C18_Witness ==
    /\ main_pc = "raised"
    /\ ~args_stdout
    /\ backup.made
    /\ Len(ini_file) = 3
    /\ Len(input) = 2
    /\ output \o section_buffer # << >>
    /\ written = NotMade

\* the ids of the anchors at the given positions of a buffer
AnchorPositions(buf) == {j \in 1..Len(buf) : buf[j].shape = "anchor"}

\* the anchors the slots of the three registries hold, one entry per slot
SlotAnchors ==
    {<<"offset", k, member_offset_params[k].anchor>> : k \in DOMAIN member_offset_params}
      \cup {<<"scale", k, member_scale_params[k].anchor>> : k \in DOMAIN member_scale_params}
      \cup {<<"velocity", k, velocity_params[k].anchor>> : k \in DOMAIN velocity_params}

\* the keys that feed the slot (value kind, player b, kind) of a section
SlotKeys(attr, b, kind) ==
    IF attr = "velocity" THEN {<<PSeg(b)>> \o KindPath(kind) \o <<"slide", "speed">>}
    ELSE {BaseKeyOf(b, kind, attr)} \cup {MemberKeyOf(b, m, kind, attr) : m \in 1..4}

\* the active lines from..to that feed the slot
Contributions(attr, b, kind, from, to) ==
    {i \in from..to :
        /\ input[i].shape = "kv" /\ ~input[i].semi
        /\ LowerKey(input[i].key) \in SlotKeys(attr, b, kind)}

\* handle_line has just been called for the last line read
JustHandled == last.called /\ last.line.src = Len(input) /\ pc = "reading"

\* C19: in a roster section the first active line that feeds a slot puts one
\* anchor in the buffer and every later line of the slot puts nothing; every
\* slot holds one anchor, no two slots hold the same, and each of them stands
\* exactly once in the buffer of the section being read, which holds no other
\* anchor.
C19_OneAnchorPerSlot ==
    /\ \A x, y \in SlotAnchors :
         /\ x[3] \in 1..anchor_counter
         /\ x[3] = y[3] => x = y
    /\ \A j, k \in AnchorPositions(section_buffer) :
         section_buffer[j].id = section_buffer[k].id => j = k
    /\ pc = "reading" =>
         {section_buffer[j].id : j \in AnchorPositions(section_buffer)}
           = {x[3] : x \in SlotAnchors}
    /\ (JustHandled /\ current_section \in {"select info", "vs screen"}) =>
         \A attr \in {"offset", "scale", "velocity"}, b \in {1, 2}, kind \in Kinds :
           Len(input) \in Contributions(attr, b, kind, sec_start + 1, Len(input)) =>
             IF Contributions(attr, b, kind, sec_start + 1, Len(input) - 1) = {}
             THEN Len(last.items) = 1 /\ last.items[1].shape = "anchor"
             ELSE last.items = << >>

\* [Select Info], p1.offset, p1.scale, p1.member2.offset: the third line put
\* nothing in the buffer, which holds two anchors
C19_Witness ==
    /\ JustHandled
    /\ current_section = "select info"
    /\ last.line.key = <<"p1", "member2", "offset">>
    /\ last.items = << >>
    /\ Contributions("offset", 1, "plain", sec_start + 1, Len(input) - 1) # {}
    /\ Cardinality(AnchorPositions(section_buffer)) = 2
    /\ Cardinality(SlotAnchors) = 2

\* the kinds of the velocity slots of a roster section
SlotKinds(sec) == IF sec = "select info" THEN {"face", "face2"} ELSE {"plain", "face2"}

SpeedKey(n, kind) == <<PSeg(n)>> \o KindPath(kind) \o <<"slide", "speed">>

\* the finalized section holds an active facing line of the kind
HasFacing(n, kind) == ActiveIn(lastFinal, BaseKeyOf(n, kind, "facing")) # {}

\* the last facing of the kind in the finalized section
FacingOf(n, kind) == LastPair(ActiveIn(lastFinal, BaseKeyOf(n, kind, "facing")), 1)[1]

\* own kind, else plain, else 1
FacingOwnThenPlain(n, kind) ==
    IF HasFacing(n, kind) THEN FacingOf(n, kind)
    ELSE IF HasFacing(n, "plain") THEN FacingOf(n, "plain")
    ELSE 1

\* own kind, else plain for face and face2 and face for plain, else 1
FacingOwnThenOther(n, kind) ==
    IF HasFacing(n, kind) THEN FacingOf(n, kind)
    ELSE IF kind # "plain" /\ HasFacing(n, "plain") THEN FacingOf(n, "plain")
    ELSE IF kind = "plain" /\ HasFacing(n, "face") THEN FacingOf(n, "face")
    ELSE 1

\* the finalized section wrote one velocity line for the slot, with the value
\* vx * f, vy of its last speed
VelocityWith(n, kind, f) ==
    /\ Cardinality(Keyed(lastFinal.out, BaseKeyOf(n, kind, "velocity"))) = 1
    /\ \A j \in Keyed(lastFinal.out, BaseKeyOf(n, kind, "velocity")) :
         lastFinal.out[j].val =
           V2(ToString(LastPair(ActiveIn(lastFinal, SpeedKey(n, kind)), 0)[1] * f),
              ToString(LastPair(ActiveIn(lastFinal, SpeedKey(n, kind)), 0)[2]))

\* C20, as stated: the velocity of a slot (section, N, K) is made with the
\* facing of K, else with the facing of plain, else with 1, so that a facing
\* of a kind other than K and plain is never used.
C20_FacingOwnThenPlain ==
    FinalizedRoster =>
      \A n \in 1..MaxPlayer, kind \in SlotKinds(lastFinal.sec) :
        ActiveIn(lastFinal, SpeedKey(n, kind)) # {} =>
          VelocityWith(n, kind, FacingOwnThenPlain(n, kind))

\* C20: the velocity of a slot (section, N, K) is made with the facing of K;
\* else, for K face or face2, with the facing of plain, and for K plain, with
\* the facing of face; else with 1. For a slot of kind face or face2 the
\* facing of the other of the two is never used.
C20_FacingFallback ==
    FinalizedRoster =>
      \A n \in 1..MaxPlayer, kind \in SlotKinds(lastFinal.sec) :
        ActiveIn(lastFinal, SpeedKey(n, kind)) # {} =>
          VelocityWith(n, kind, FacingOwnThenOther(n, kind))

\* [VS Screen], p1.face.facing = 2, p1.slide.speed = 5, 0: the plain slot took
\* the facing of face and the section wrote p1.velocity = 10, 0
C20_Witness ==
    /\ FinalizedRoster
    /\ lastFinal.sec = "vs screen"
    /\ ActiveIn(lastFinal, <<"p1", "slide", "speed">>) # {}
    /\ ~HasFacing(1, "plain")
    /\ HasFacing(1, "face")
    /\ \E j \in Keyed(lastFinal.out, <<"p1", "velocity">>) :
         lastFinal.out[j].val = V2("10", "0")

\* the finalized section holds an active line that sets the base of the slot,
\* an active line that sets the override of member m
HasBase(b, kind, attr) == ActiveIn(lastFinal, BaseKeyOf(b, kind, attr)) # {}

HasOverride(b, m, kind, attr) == ActiveIn(lastFinal, MemberKeyOf(b, m, kind, attr)) # {}

\* C21: when a roster section is closed, the flush writes a line for the
\* target of member 1 of an offset or scale slot exactly when the section
\* holds a base or a member-1 override of the slot, and a line for the target
\* of member 2, 3 or 4 exactly when it holds an override of that member.
C21_TargetsOfASlot ==
    FinalizedRoster =>
      \A attr \in {"offset", "scale"}, b \in {1, 2}, kind \in Kinds, m \in 1..4 :
        (Generated(lastFinal.out, TargetKeyOf(b, m, kind, attr)) # {})
          <=> (\/ m = 1 /\ HasBase(b, kind, attr)
               \/ HasOverride(b, m, kind, attr))

\* a section with p1.offset and p2.member4.face.scale alone wrote p1.offset
\* and no p3.offset, p8.face.scale and no p2.face.scale
C21_Witness ==
    /\ FinalizedRoster
    /\ HasBase(1, "plain", "offset")
    /\ \A m \in 1..4 : ~HasOverride(1, m, "plain", "offset")
    /\ Generated(lastFinal.out, <<"p1", "offset">>) # {}
    /\ Generated(lastFinal.out, <<"p3", "offset">>) = {}
    /\ ~HasBase(2, "face", "scale")
    /\ HasOverride(2, 4, "face", "scale")
    /\ ~HasOverride(2, 1, "face", "scale")
    /\ Generated(lastFinal.out, <<"p8", "face", "scale">>) # {}
    /\ Generated(lastFinal.out, <<"p2", "face", "scale">>) = {}

\* the items of a sequence that come from an input line, in order
FromInput(s) ==
    SelectSeq(s, LAMBDA x : IF x.shape = "anchor" THEN FALSE ELSE x.src # 0)

\* the input lines the items of a sequence come from
Sources(s) == {FromInput(s)[j].src : j \in 1..Len(FromInput(s))}

\* this step reads a section header
ReadsHeader ==
    /\ Len(input') = Len(input) + 1
    /\ input'[Len(input')].shape = "section"

\* this step finalizes the buffer of the current section, and what it writes
\* starts with the finalized lines, which hold every buffered line, in order,
\* and no anchor
ClosesCurrent ==
    /\ lastFinal'.called
    /\ lastFinal'.sec = current_section
    /\ lastFinal'.buf = section_buffer
    /\ FromInput(lastFinal'.out) = FromInput(section_buffer)
    /\ \A j \in 1..Len(lastFinal'.out) : lastFinal'.out[j].shape # "anchor"
    /\ Len(output') >= Len(output) + Len(lastFinal'.out)
    /\ SubSeq(output', 1, Len(output) + Len(lastFinal'.out)) = output \o lastFinal'.out

\* a header closes the current section, then writes itself and opens the
\* section it names; the end of input closes the current section; any other
\* line keeps the section, finalizes nothing and writes nothing
LifecycleStep ==
    IF ReadsHeader
    THEN /\ ClosesCurrent
         /\ Len(output') = Len(output) + Len(lastFinal'.out) + 1
         /\ output'[Len(output')].shape = "section"
         /\ output'[Len(output')].src = Len(input')
         /\ current_section' = SECTION_RENAMES(Lower(input'[Len(input')].name))
         /\ FromInput(section_buffer') = << >>
    ELSE IF pc' = "done"
    THEN /\ ClosesCurrent
         /\ input' = input
         /\ \A j \in (Len(output) + Len(lastFinal'.out) + 1)..Len(output') :
              output'[j].src = 0
    ELSE /\ Len(input') = Len(input) + 1
         /\ output' = output
         /\ lastFinal' = lastFinal
         /\ current_section' = current_section

\* what is written comes from the sections that are closed, what is buffered
\* from the current one, and at the end every buffered line is written
WrittenOrBuffered ==
    /\ \A i \in Sources(output) : i <= sec_start \/ pc = "done"
    /\ \A i \in Sources(section_buffer) : i > sec_start
    /\ \A j \in 1..(Len(FromInput(output)) - 1) :
         FromInput(output)[j].src <= FromInput(output)[j + 1].src
    /\ \A i \in 1..Len(input) :
         input[i].shape # "kv" =>
           Cardinality({j \in 1..Len(output) : output[j].src = i})
             + (IF pc = "done" THEN 0
                ELSE Cardinality({j \in 1..Len(section_buffer) :
                                    section_buffer[j].shape # "anchor"
                                    /\ section_buffer[j].src = i})) = 1

\* C22: one section is current at a time; its buffer is finalized and written
\* once, when the next header is read or at the end of input, before the next
\* header is written; at the end of input no buffered line is left unwritten.
C22_SectionLifecycle ==
    /\ [][LifecycleStep]_vars
    /\ []WrittenOrBuffered

\* [VS Screen], p1.offset = 10, 20, [Option Info], end: the offset lines stand
\* before the header of option info, whose defaults were written at the end
C22_Witness ==
    /\ pc = "done"
    /\ Len(input) = 3
    /\ lastFinal.sec = "option info"
    /\ Len(lastFinal.out) > Len(lastFinal.buf)
    /\ \E j, k \in 1..Len(output) :
         /\ j < k
         /\ output[j].shape = "kv" /\ output[j].src = 0
         /\ output[j].key = <<"p1", "offset">>
         /\ output[k].shape = "section" /\ output[k].src = 3

\* C23: when an occurrence of option info is closed, a default is written
\* exactly when its key was not read as an active key in that occurrence; an
\* active key of an earlier occurrence does not keep the default from a later
\* one.
C23_SeenKeysPerOccurrence ==
    OptionInfoClosed =>
      \A i \in 1..Len(OptionDefaults) :
        (Generated(lastFinal.out, OptionDefaults[i].key) # {})
          <=> (ActiveIn(lastFinal, LowerKey(OptionDefaults[i].key)) = {})

\* the keys of the offset, scale and slide speed shapes of a roster section
AggregationKeys(sec) ==
    {BaseKeyOf(b, kind, attr) : b \in {1, 2}, kind \in Kinds, attr \in {"offset", "scale"}}
      \cup {MemberKeyOf(b, m, kind, attr) :
              b \in {1, 2}, m \in 1..4, kind \in Kinds, attr \in {"offset", "scale"}}
      \cup {SpeedKey(n, kind) : n \in 1..MaxPlayer, kind \in SlotKinds(sec)}

\* input line i is an active line of an aggregated shape in a roster section
AggregationLine(i) ==
    /\ input[i].shape = "kv" /\ ~input[i].semi
    /\ SectionAt(i) \in {"select info", "vs screen", "victory screen"}
    /\ LowerKey(input[i].key) \in AggregationKeys(SectionAt(i))

\* C24: an active line of an offset, scale or slide speed shape in a roster
\* section is never written: handle_line returns the new anchor of its slot
\* alone, or nothing, and neither the buffer nor the output ever holds a line
\* made from it.
C24_CaptureConsumesLine ==
    /\ \A i \in 1..Len(input) :
         AggregationLine(i) =>
           MadeFrom(output, i) = {} /\ MadeFrom(section_buffer, i) = {}
    /\ (JustHandled /\ AggregationLine(Len(input))) =>
         \/ last.items = << >>
         \/ last.items = <<AnchorToken(anchor_counter)>>

\* the second aggregated line of a section, a slide speed, gave the anchor 2
C24_Witness ==
    /\ JustHandled
    /\ AggregationLine(Len(input))
    /\ AggregationLine(Len(input) - 1)
    /\ LowerKey(input[Len(input)].key) = <<"p1", "slide", "speed">>
    /\ anchor_counter = 2
    /\ last.items = <<AnchorToken(2)>>

\* the keys of the offset, scale, facing and slide speed shapes
ShapedKeys ==
    AggregationKeys("select info") \cup AggregationKeys("vs screen")
      \cup {BaseKeyOf(n, kind, "facing") : n \in 1..MaxPlayer, kind \in Kinds}

\* handle_line has just been called for an active line of one of the shapes
\* outside the roster sections
ShapedOutsideRoster ==
    /\ JustHandled
    /\ ~last.line.semi
    /\ last.section \notin {"select info", "vs screen", "victory screen"}
    /\ LowerKey(last.line.key) \in ShapedKeys

\* what the stages after the capture make of such a line: the line under the
\* target player when its key holds a member segment, the line itself when
\* not
HandledLikeAnyKey(line) ==
    IF MemberSegments(LowerKey(line.key)) # {}
    THEN [line EXCEPT !.key = ExpectedRemap(line.key)]
    ELSE line

\* outside the roster sections no step changes a registry, the facing records
\* or the anchor counter
NoRecordOutsideRoster ==
    current_section \notin {"select info", "vs screen", "victory screen"} =>
      UNCHANGED <<member_offset_params, member_scale_params, facing_params,
                  velocity_params, anchor_counter>>

\* C25: outside select info, vs screen and victory screen a key of the
\* offset, scale, facing or slide speed shape makes no slot, no anchor and no
\* facing record, and its line is written by the stages that follow: renamed
\* to the target player when it holds a member segment, as it stands when not.
C25_AggregationOnlyInRoster ==
    /\ [][NoRecordOutsideRoster]_vars
    /\ [](/\ \A k \in EntriesFor(current_section) \cup DOMAIN member_offset_params
                      \cup DOMAIN member_scale_params \cup DOMAIN facing_params
                      \cup DOMAIN velocity_params :
               k[1] \in {"select info", "vs screen", "victory screen"}
          /\ (pc = "reading"
              /\ current_section \notin {"select info", "vs screen", "victory screen"})
               => AnchorPositions(section_buffer) = {}
          /\ ShapedOutsideRoster => last.items = <<HandledLikeAnyKey(last.line)>>)

\* [Title Info], then p1.member2.scale = 2, 2: the line p3.scale = 2, 2 is in
\* the buffer and the registries are empty
C25_Witness ==
    /\ ShapedOutsideRoster
    /\ last.section = "title info"
    /\ last.line.key = <<"p1", "member2", "scale">>
    /\ last.items[1].key = <<"p3", "scale">>
    /\ section_buffer[Len(section_buffer)] = last.items[1]
    /\ DOMAIN member_scale_params = {}
    /\ anchor_counter = 0

\* the key matches ^menu\.bg\.active\.(.+)\.(anim|...)$, the first rule of
\* title info; ^menu\.bg\.(.+)\.(anim|...)$, the second
MatchesBgActive(k) ==
    /\ Len(k) >= 5 /\ SubSeq(k, 1, 3) = <<"menu", "bg", "active">>
    /\ k[Len(k)] \in {"anim", "spr", "offset", "facing", "scale", "xshear", "angle",
                     "layerno", "window", "localcoord"}

MatchesBg(k) ==
    /\ Len(k) >= 4 /\ SubSeq(k, 1, 2) = <<"menu", "bg">>
    /\ k[Len(k)] \in {"anim", "spr", "offset", "facing", "scale", "xshear", "angle",
                     "layerno", "window", "localcoord"}

\* the line with another key
Rekeyed(line, key) == [line EXCEPT !.key = key]

\* C26: the rules of a section are tried in the order of the table and the
\* first that matches alone writes, one line for each of its templates, with
\* the value of the line: in title info a key that the rule of menu.bg.active
\* matches gives the line menu.item.active.bg... alone, though the rule of
\* menu.bg matches it too; a key that only the rule of menu.bg matches gives
\* menu.item.bg...; in select info stage.active.font gives its two lines.
C26_FirstMatchWins ==
    (JustHandled /\ ~last.line.semi) =>
      /\ (last.section = "title info" /\ MatchesBgActive(LowerKey(last.line.key))) =>
           last.items = << Rekeyed(last.line,
                                   <<"menu", "item", "active", "bg">>
                                     \o SubSeq(last.line.key, 4, Len(last.line.key))) >>
      /\ (/\ last.section = "title info"
          /\ MatchesBg(LowerKey(last.line.key))
          /\ ~MatchesBgActive(LowerKey(last.line.key))) =>
           last.items = << Rekeyed(last.line,
                                   <<"menu", "item", "bg">>
                                     \o SubSeq(last.line.key, 3, Len(last.line.key))) >>
      /\ (last.section = "select info"
          /\ LowerKey(last.line.key) = <<"stage", "active", "font">>) =>
           last.items = << Rekeyed(last.line, <<"stage", "font">>),
                           Rekeyed(last.line, <<"stage", "active", "font">>) >>

\* menu.bg.active.x.anim = 1 of title info gave menu.item.active.bg.x.anim = 1
\* alone
C26_Witness ==
    /\ JustHandled
    /\ last.section = "title info"
    /\ last.line.key = <<"menu", "bg", "active", "x", "anim">>
    /\ MatchesBgActive(last.line.key) /\ MatchesBg(last.line.key)
    /\ Len(last.items) = 1
    /\ last.items[1].key = <<"menu", "item", "active", "bg", "x", "anim">>
    /\ last.items[1].val = V1("1")
    /\ section_buffer[Len(section_buffer)] = last.items[1]

\* the segment spells the number n, with or without a leading zero
Spells(s, n) == s = ToString(n) \/ s = "0" \o ToString(n)

\* <row-1>-<col-1>
Shifted(r, c) == ToString(r - 1) \o "-" \o ToString(c - 1)

\* handle_line has just been called for an active line of select info
SelectLineHandled == JustHandled /\ ~last.line.semi /\ last.section = "select info"

\* C27: in select info the line of a key cell.<row>.<col>.<suffix>, suffix
\* offset, facing or skip, or p<1|2>.cursor.<active|done>.<row>.<col>.<suffix>,
\* suffix anim, spr, offset, facing or scale, is written once, with the two
\* indices replaced by <row-1>-<col-1> and its value kept, so that indices
\* counted from 1 give indices counted from 0.
C27_IndexShift ==
    SelectLineHandled =>
      \A r, c \in 0..NumRange :
        LET k == LowerKey(last.line.key) IN
        /\ (/\ Len(k) = 4 /\ k[1] = "cell"
            /\ Spells(k[2], r) /\ Spells(k[3], c)
            /\ k[4] \in {"offset", "facing", "skip"}) =>
             last.items = << Rekeyed(last.line, <<"cell", Shifted(r, c), k[4]>>) >>
        /\ (/\ Len(k) = 6 /\ k[1] \in {"p1", "p2"} /\ k[2] = "cursor"
            /\ k[3] \in {"active", "done"}
            /\ Spells(k[4], r) /\ Spells(k[5], c)
            /\ k[6] \in {"anim", "spr", "offset", "facing", "scale"}) =>
             last.items = << Rekeyed(last.line,
                                     <<k[1], "cursor", k[3], Shifted(r, c), k[6]>>) >>

\* p2.cursor.done.3.1.scale = 2, 2 gave p2.cursor.done.2-0.scale = 2, 2
C27_Witness ==
    /\ SelectLineHandled
    /\ last.line.key = <<"p2", "cursor", "done", "3", "1", "scale">>
    /\ Len(last.items) = 1
    /\ last.items[1].key = <<"p2", "cursor", "done", "2-0", "scale">>
    /\ last.items[1].val = V2("2", "2")
    /\ section_buffer[Len(section_buffer)] = last.items[1]

\* C28: an active key = value line that is written with its key and its value
\* as they were is written as it stood, blanks included; a line written
\* otherwise is spelled `key = value`, with the inline comment of the input.
C28_UnchangedLineKeptAsWritten ==
    \A i \in 1..Len(input) :
      (input[i].shape = "kv" /\ ~input[i].semi) =>
        \A j \in MadeFrom(output \o section_buffer, i) :
          LET item == (output \o section_buffer)[j] IN
          /\ (/\ Cardinality(MadeFrom(output \o section_buffer, i)) = 1
              /\ item.key = input[i].key
              /\ item.val = input[i].val) => item = input[i]
          /\ item # input[i] => (item.canon /\ item.val.ic = input[i].val.ic)

\* handle_line has just been called for an active line whose key ends with
\* the segments boxcursor.alpharange
AlpharangeHandled ==
    /\ JustHandled
    /\ ~last.line.semi
    /\ Len(last.line.key) >= 2
    /\ SubSeq(LowerKey(last.line.key), Len(last.line.key) - 1, Len(last.line.key))
         = <<"boxcursor", "alpharange">>

\* the line is written once, under a key that ends with boxcursor.pulse
RenamedToPulse ==
    /\ Len(last.items) = 1
    /\ last.items[1].shape = "kv" /\ ~last.items[1].semi
    /\ Len(last.items[1].key) >= 2
    /\ SubSeq(last.items[1].key, Len(last.items[1].key) - 1, Len(last.items[1].key))
         = <<last.line.key[Len(last.line.key) - 1], "pulse">>

\* the text 30, 20, 30
PulseFields == <<Fld(FALSE, "30"), Fld(TRUE, "20"), Fld(TRUE, "30")>>

MenuLike == {"title info", "select info", "option info", "attract mode",
             "pause menu", "training pause menu", "replay info"}

\* handle_line has just been called for an active line whose key is
\* <prefix>.itemname.<...>empty
EmptyItemHandled ==
    /\ JustHandled
    /\ ~last.line.semi
    /\ Len(last.line.key) >= 3
    /\ Lower(last.line.key[Len(last.line.key)]) = "empty"
    /\ \E i \in 2..(Len(last.line.key) - 1) : Lower(last.line.key[i]) = "itemname"

\* the value read has no text
NoText == Len(last.line.val.f) = 1 /\ last.line.val.f[1].s = ""

\* some line written for the line read has a key that ends with spacer
SomeSpacer ==
    \E j \in 1..Len(last.items) :
        /\ last.items[j].shape = "kv"
        /\ last.items[j].key[Len(last.items[j].key)] = "spacer"

\* C30: in a menu-like section an active key <prefix>.itemname.<...>empty
\* with an empty value is written as one line <prefix>.itemname.<...>spacer = -
\* (the prefix as the member remap leaves it, the inline comment kept); with
\* a value that is not empty, or in any other section, no line written for it
\* has a key that ends with spacer.
C30_EmptyItemRewrite ==
    EmptyItemHandled =>
      IF last.section \in MenuLike /\ NoText
      THEN /\ Len(last.items) = 1
           /\ last.items[1].shape = "kv" /\ ~last.items[1].semi
           /\ last.items[1].key[Len(last.items[1].key)] = "spacer"
           /\ \E i \in 1..(Len(last.items[1].key) - 1) :
                  last.items[1].key[i] = "itemname"
           /\ Len(last.items[1].key) = Len(last.line.key) =>
                  SubSeq(last.items[1].key, 1, Len(last.line.key) - 1)
                    = SubSeq(last.line.key, 1, Len(last.line.key) - 1)
           /\ last.items[1].val
                = Val(FALSE, ",", <<Fld(FALSE, "-")>>, last.line.val.ic)
      ELSE ~SomeSpacer

\* under title info menu.itemname.foo.empty = "" gave
\* menu.itemname.foo.spacer = -
C30_Witness ==
    /\ EmptyItemHandled
    /\ last.section = "title info"
    /\ last.line.val = Quoted("")
    /\ Len(last.items) = 1
    /\ last.items[1].key = <<"menu", "itemname", "foo", "spacer">>
    /\ last.items[1].val = V1("-")
    /\ section_buffer[Len(section_buffer)].key
         = <<"menu", "itemname", "foo", "spacer">>

\* the rename table: the new name, as it is written, of an old name
NewNameOf(s) ==
    CASE s = "menu info" -> "Pause Menu"
      [] s = "menubgdef" -> "PauseBGdef"
      [] s = "training info" -> "Training Pause Menu"
      [] s = "trainingbgdef" -> "TrainingPauseBGdef"
      [] OTHER -> ""

\* the header written for the header read as input line i
HeaderWritten(i) == output[CHOOSE j \in MadeFrom(output, i) : TRUE]

\* C31: a header whose name, in small letters, is in the rename table is
\* written with the new name, and menu.uselocalcoord read under it is deleted;
\* every other header is written with the name it had.
C31_HeaderRenamedOrKept ==
    \A i \in 1..Len(input) :
      /\ input[i].shape = "section" =>
           /\ Cardinality(MadeFrom(output, i)) = 1
           /\ HeaderWritten(i).shape = "section"
           /\ HeaderWritten(i).pre = input[i].pre
           /\ HeaderWritten(i).suf = input[i].suf
           /\ HeaderWritten(i).name =
                IF NewNameOf(Lower(input[i].name)) # ""
                THEN NewNameOf(Lower(input[i].name))
                ELSE input[i].name
      /\ (/\ input[i].shape = "kv" /\ ~input[i].semi
          /\ LowerKey(input[i].key) = <<"menu", "uselocalcoord">>
          /\ \E h \in 1..(i - 1) :
               /\ input[h].shape = "section"
               /\ NewNameOf(Lower(input[h].name)) # ""
               /\ \A k \in (h + 1)..(i - 1) : input[k].shape # "section")
         => MadeFrom(output \o section_buffer, i) = {}

\* what was written and what waits in the buffer of the section being read
AllWritten == IF pc = "done" THEN output ELSE output \o section_buffer

\* the [Info] headers of the input
InputInfoHeaders ==
    {i \in 1..Len(input) : input[i].shape = "section" /\ Lower(input[i].name) = "info"}

\* the active ikemenversion lines read under [Info]
InputVersions ==
    {i \in 1..Len(input) :
        /\ input[i].shape = "kv" /\ ~input[i].semi
        /\ LowerKey(input[i].key) = <<"ikemenversion">>
        /\ \E h \in InputInfoHeaders :
             h < i /\ \A k \in (h + 1)..(i - 1) : input[k].shape # "section"}

\* item j is an active line ikemenversion = 1.0
IsTargetVersion(items, j) ==
    /\ items[j].shape = "kv" /\ ~items[j].semi
    /\ LowerKey(items[j].key) = <<"ikemenversion">>
    /\ ~items[j].val.q
    /\ items[j].val.f = <<Fld(FALSE, "1.0")>>

\* the ikemenversion lines that were made from no line of the input
InsertedVersions ==
    {j \in 1..Len(AllWritten) :
        /\ AllWritten[j].shape = "kv"
        /\ AllWritten[j].src = 0
        /\ LowerKey(AllWritten[j].key) = <<"ikemenversion">>}

\* item j stands in an [Info] section of the items
InsideInfo(items, j) ==
    \E h \in InfoHeaders(items) :
      h < j /\ \A k \in (h + 1)..(j - 1) : items[k].shape # "section"

\* C32: every active ikemenversion line read under [Info] is written once, as
\* ikemenversion = 1.0 followed by its inline comment; when the input has an
\* [Info] header and the caller found no active one (raw_version is None), one
\* line ikemenversion = 1.0 is inserted, right after the first [Info] header,
\* and no other however often [Info] occurs; when the caller found one, none
\* is inserted; and at the end the output of an input that has an [Info]
\* header holds an active ikemenversion = 1.0 inside an [Info] section.
C32_VersionLine ==
    /\ \A i \in InputVersions :
         /\ Cardinality(MadeFrom(AllWritten, i)) = 1
         /\ \A j \in MadeFrom(AllWritten, i) :
              /\ IsTargetVersion(AllWritten, j)
              /\ AllWritten[j].key = input[i].key
              /\ AllWritten[j].val.ic = input[i].val.ic
    /\ (InputInfoHeaders # {} /\ raw_version = None) =>
         /\ Cardinality(InsertedVersions) = 1
         /\ \A j \in InsertedVersions :
              /\ IsTargetVersion(AllWritten, j)
              /\ AllWritten[j].val.ic = ""
              /\ j > 1
              /\ AllWritten[j - 1].shape = "section"
              /\ AllWritten[j - 1].src = MinOf(InputInfoHeaders)
    /\ raw_version # None => InsertedVersions = {}
    /\ (pc = "done" /\ InputInfoHeaders # {}) =>
         \E j \in 1..Len(output) :
           IsTargetVersion(output, j) /\ InsideInfo(output, j)

\* [Info] was read twice with no active ikemenversion: one line was inserted,
\* after the first header
C32_Witness ==
    /\ pc = "done"
    /\ has_info = "True" /\ raw_version = None
    /\ Cardinality(InputInfoHeaders) = 2
    /\ InsertedVersions = {MinOf(InputInfoHeaders) + 1}
    /\ output[MinOf(InputInfoHeaders) + 1] = VersionLine

\* the pair a flushed slot gives member m of base player b: the last base
\* line and the last line of the member, combined
LastCombined(b, m, kind, attr) ==
    LET id == IF attr = "offset" THEN 0 ELSE 1
        base == LastPair(ActiveIn(lastFinal, BaseKeyOf(b, kind, attr)), id)
        over == LastPair(ActiveIn(lastFinal, MemberKeyOf(b, m, kind, attr)), id)
    IN  IF attr = "offset" THEN <<base[1] + over[1], base[2] + over[2]>>
        ELSE <<base[1] * over[1], base[2] * over[2]>>

\* C33: however often a base key or a member key is given in a roster
\* section, the flush writes at most one offset line and at most one scale
\* line for a target player and a kind, and its value is made from the last
\* value given for the base and the last value given for the member.
C33_OneLinePerTarget ==
    FinalizedRoster =>
      \A b \in {1, 2}, kind \in Kinds, m \in 1..4, attr \in {"offset", "scale"} :
        /\ Cardinality(Generated(lastFinal.out, TargetKeyOf(b, m, kind, attr))) <= 1
        /\ Cardinality(Generated(lastFinal.out, DoneKeyOf(b, m, kind, attr))) <= 1
        /\ \A j \in Generated(lastFinal.out, TargetKeyOf(b, m, kind, attr)) :
             lastFinal.out[j].val =
               V2(ToString(LastCombined(b, m, kind, attr)[1]),
                  ToString(LastCombined(b, m, kind, attr)[2]))

\* p1.offset = 10, 20, then p1.offset = 1, 2, then p1.member2.offset = 3, 4:
\* one p1.offset = 1, 2 and one p3.offset = 4, 6
C33_Witness ==
    /\ FinalizedRoster
    /\ lastFinal.sec = "select info"
    /\ Cardinality(ActiveIn(lastFinal, <<"p1", "offset">>)) = 2
    /\ input[MaxOf(ActiveIn(lastFinal, <<"p1", "offset">>))].val = V2("1", "2")
    /\ ActiveIn(lastFinal, <<"p1", "member2", "offset">>) # {}
    /\ \A i \in ActiveIn(lastFinal, <<"p1", "member2", "offset">>) :
         input[i].val = V2("3", "4")
    /\ Cardinality(Generated(lastFinal.out, <<"p1", "offset">>)) = 1
    /\ \A j \in Generated(lastFinal.out, <<"p1", "offset">>) :
         lastFinal.out[j].val = V2("1", "2")
    /\ \A j \in Generated(lastFinal.out, <<"p3", "offset">>) :
         lastFinal.out[j].val = V2("4", "6")
    /\ Cardinality(Generated(lastFinal.out, <<"p3", "offset">>)) = 1

\* the anchors among the items
Anchors(items) == {j \in 1..Len(items) : items[j].shape = "anchor"}

\* C34: no item written to the output is an anchor; the list a finalize
\* returns holds none, whatever the buffer it was given held; and the buffer of
\* the lines read before the first header, and of every section that is not a
\* roster section, never holds one.
C34_NoAnchorWritten ==
    /\ Anchors(output) = {}
    /\ lastFinal.called => Anchors(lastFinal.out) = {}
    /\ current_section \notin {"select info", "vs screen", "victory screen"}
         => Anchors(section_buffer) = {}

\* a roster section whose buffer held two anchors was finalized after lines
\* that stood before the first header were written, and what was written for
\* it holds generated lines
C34_Witness ==
    /\ lastFinal.called
    /\ Cardinality(Anchors(lastFinal.buf)) = 2
    /\ lastFinal.first > 2
    /\ \E i \in 1..Len(input) : SectionAt(i) = "" /\ input[i].shape = "kv"
    /\ \E j \in 1..Len(output) : output[j].shape = "kv" /\ output[j].src = 0
    /\ Anchors(output) = {}

\* the slots a roster section can hold: a value kind, a base player, a kind
SlotsIn(sec) ==
    {<<attr, b, kind>> \in {"offset", "scale", "velocity"} \X {1, 2} \X Kinds :
        attr = "velocity" => kind \in SlotKinds(sec)}

\* the active lines of the finalized section that feed the slot
FedBy(slot) ==
    Contributions(slot[1], slot[2], slot[3], lastFinal.first, lastFinal.last)

\* the positions of the lines the finalize wrote for the slot
SlotGenerated(slot) ==
    IF slot[1] = "velocity"
    THEN Generated(lastFinal.out, BaseKeyOf(slot[2], slot[3], "velocity"))
    ELSE UNION {Generated(lastFinal.out, TargetKeyOf(slot[2], m, slot[3], slot[1]))
                  \cup Generated(lastFinal.out, DoneKeyOf(slot[2], m, slot[3], slot[1]))
                : m \in 1..4}

\* C35: when a roster section is finalized, every slot that an active line of
\* the section fed has at least one generated line, written where the first
\* of these lines stood; the buffer held one anchor for each such slot and no
\* other, so that every anchor gave way to at least one line.
C35_EverySlotYieldsALine ==
    FinalizedRoster =>
      /\ \A slot \in SlotsIn(lastFinal.sec) :
           FedBy(slot) # {} =>
             /\ SlotGenerated(slot) # {}
             /\ PlacedAt(lastFinal.out, SlotGenerated(slot), MinOf(FedBy(slot)))
      /\ Cardinality(Anchors(lastFinal.buf))
           = Cardinality({slot \in SlotsIn(lastFinal.sec) : FedBy(slot) # {}})
      /\ Len(lastFinal.out) >= Len(lastFinal.buf)

\* [VS Screen] with a base scale alone, a member offset alone and a speed:
\* three anchors, and lines for p1.scale, p3.offset and p1.face2.velocity
C35_Witness ==
    /\ FinalizedRoster
    /\ lastFinal.sec = "vs screen"
    /\ Cardinality(Anchors(lastFinal.buf)) = 3
    /\ FedBy(<<"scale", 1, "plain">>) # {}
    /\ ActiveIn(lastFinal, <<"p1", "member3", "scale">>) = {}
    /\ ActiveIn(lastFinal, <<"p1", "offset">>) = {}
    /\ Generated(lastFinal.out, <<"p1", "scale">>) # {}
    /\ Generated(lastFinal.out, <<"p3", "offset">>) # {}
    /\ Generated(lastFinal.out, <<"p1", "offset">>) = {}
    /\ Generated(lastFinal.out, <<"p1", "face2", "velocity">>) # {}

\* the key of the speed of member m of base player b
MemberSpeedKey(b, m) ==
    <<"p" \o ToString(b), "member" \o ToString(m), "slide", "speed">>

\* the finalized section gives member m of base player b a facing and a
\* speed, and names the player the member becomes in no other way
MemberFacingAndSpeed(b, m) ==
    /\ ActiveIn(lastFinal, MemberKeyOf(b, m, "plain", "facing")) # {}
    /\ ActiveIn(lastFinal, MemberSpeedKey(b, m)) # {}
    /\ ActiveIn(lastFinal, BaseKeyOf(TargetPlayer(b, m), "plain", "facing")) = {}
    /\ ActiveIn(lastFinal, SpeedKey(TargetPlayer(b, m), "plain")) = {}

\* C36, as stated: in vs screen and victory screen the velocity written for
\* the player a member becomes is vx * f, vy, with f the facing given for the
\* member and vx, vy its speed.
C36_MemberFacingSignsVelocity ==
    (FinalizedRoster /\ lastFinal.sec \in {"vs screen", "victory screen"}) =>
      \A b \in {1, 2}, m \in 1..4 :
        MemberFacingAndSpeed(b, m) =>
          /\ Generated(lastFinal.out, <<PSeg(TargetPlayer(b, m)), "velocity">>) # {}
          /\ \A j \in Generated(lastFinal.out, <<PSeg(TargetPlayer(b, m)), "velocity">>) :
               lastFinal.out[j].val =
                 V2(ToString(LastPair(ActiveIn(lastFinal, MemberSpeedKey(b, m)), 0)[1]
                      * LastPair(ActiveIn(lastFinal,
                                          MemberKeyOf(b, m, "plain", "facing")), 1)[1]),
                    ToString(LastPair(ActiveIn(lastFinal, MemberSpeedKey(b, m)), 0)[2]))

\* C37: what is written for a roster section never holds two active lines
\* with the same key of which one was generated by the flush.
C37_NoKeyTwiceFromFlush ==
    FinalizedRoster =>
      \A j, k \in 1..Len(lastFinal.out) :
        (/\ j # k
         /\ lastFinal.out[j].shape = "kv" /\ ~lastFinal.out[j].semi
         /\ lastFinal.out[k].shape = "kv" /\ ~lastFinal.out[k].semi
         /\ lastFinal.out[j].src = 0)
        => LowerKey(lastFinal.out[j].key) # LowerKey(lastFinal.out[k].key)

\* C38: main writes the file only when a backup that holds the original was
\* made; when the backup could not be made the file is never written.
C38_BackupBeforeOverwrite ==
    written.made => (backup.made /\ backup.content = ini_file)

\* main starts on a file that an earlier run has patched in place
SecondRun == written.made /\ main_pc \in {"start", "skipped"}

\* why the first run patched the file, read from the backup it made
FirstRunTrigger ==
    LET d == detect_ikemen_version(backup.content)
    IN  IF d.has_info = "False" THEN "no info"
        ELSE IF d.raw_version = None THEN "no version"
        ELSE IF d.parsed_version = NoVersion THEN "no number"
        ELSE IF d.parsed_version < 100 THEN "lower"
        ELSE "none"

\* C39: when main runs again on a file it has patched in place, it finds an
\* active ikemenversion under [Info] that is a number at or above the target,
\* and its only step is the one that ends it without a patch: the file stays
\* as the first run wrote it, whatever made the first run patch.
C39_SecondRunChangesNothing ==
    /\ [](SecondRun =>
            /\ ini_file = written.content
            /\ detect_ikemen_version(ini_file).has_info = "True"
            /\ detect_ikemen_version(ini_file).raw_version # None
            /\ detect_ikemen_version(ini_file).parsed_version >= 100)
    /\ [][(written.made /\ main_pc = "start") =>
            /\ main_pc' = "skipped"
            /\ written' = written
            /\ ini_file' = ini_file
            /\ backup' = backup]_vars

\* a file whose version was below the target was patched, with a backup, and
\* the second run ended without a patch
C39_Witness ==
    /\ main_pc = "skipped"
    /\ written.made
    /\ backup.made
    /\ FirstRunTrigger = "lower"
    /\ Len(backup.content) = 3
    /\ ini_file = written.content
    /\ ini_file # backup.content

====
